---- MODULE Spec2Model ----
(***************************************************************************)
(* A model of the calculator repository: the Calculator engine             *)
(* (src/calculator.py) and the text command interpreter CalculatorCLI      *)
(* (src/main.py).                                                          *)
(*                                                                         *)
(* Numbers.  A Python int is [int |-> TRUE, v |-> n].  A Python float is   *)
(* [int |-> FALSE, v |-> m], the value m / FS on a decimal grid of         *)
(* FloatDigits fractional digits; every float operation rounds its exact   *)
(* result to the nearest grid point (ties to even), as IEEE arithmetic     *)
(* rounds to the nearest double.  The grid has no infinities, no NaN and   *)
(* no negative zero.                                                       *)
(*                                                                         *)
(* Strings.  A Python str is a sequence of one-character strings; a        *)
(* non-ASCII character is named by its code point ("U+00D7" is the         *)
(* multiplication sign).                                                   *)
(***************************************************************************)
EXTENDS Integers, Sequences, FiniteSets, TLC

VARIABLES
    heap,         \* the list objects: heap[id] is the content of list id
    last_result,  \* Calculator.last_result
    ret,          \* the last call made on the engine and how it ended (NoCall
                  \* after a parse_expression whose branch calls none)
    held,         \* the list a caller got from get_history and still holds
    running,      \* CalculatorCLI.running
    cli,          \* the last parse_expression call: its line and its outcome
    pc,           \* where run_interactive stands ("idle" when it is not running)
    stdin,        \* the input stream run_interactive reads from
    nread,        \* how many items of stdin input() has delivered; in a window,
                  \* how many events its handlers have taken
    printed,      \* what run_interactive has printed after its banner
    gui           \* the CalculatorGUI: its attributes, its display and the
                  \* messages of the error boxes its last handler showed

engine == <<heap, last_result, ret, held>>
vars == <<heap, last_result, ret, held, running, cli, pc, stdin, nread, printed, gui>>

----------------------------------------------------------------------------
(* Bounds of the model *)

\* Fractional decimal digits of the float grid.
FloatDigits == 1
\* Longest history the engine lifecycle (Spec) builds.
MaxHistory == 2

FS == 10 ^ FloatDigits

----------------------------------------------------------------------------
(* Python numbers *)

Int_(n) == [int |-> TRUE, v |-> n]
\* The float whole + tenths/10.
Flt(whole, tenths) == [int |-> FALSE, v |-> whole * FS + tenths * (FS \div 10)]
FltV(m) == [int |-> FALSE, v |-> m]

None == [none |-> TRUE]

Abs(n) == IF n < 0 THEN -n ELSE n

\* n / d rounded to the nearest integer, ties to the even one (d # 0).
RoundDiv(n, d) ==
    LET dd == Abs(d)
        nn == IF d < 0 THEN -n ELSE n
        q  == nn \div dd
        r  == nn % dd
    IN  IF 2 * r < dd THEN q
        ELSE IF 2 * r > dd THEN q + 1
        ELSE IF q % 2 = 0 THEN q ELSE q + 1

RECURSIVE FloorSqrtIn(_, _, _)
\* The s in lo..hi with s*s <= n < (s+1)*(s+1), by bisection.
FloorSqrtIn(n, lo, hi) ==
    IF lo >= hi THEN lo
    ELSE LET mid == (lo + hi + 1) \div 2
         IN  IF mid * mid <= n THEN FloorSqrtIn(n, mid, hi)
             ELSE FloorSqrtIn(n, lo, mid - 1)

\* The integer nearest to the square root of n >= 0.
RoundSqrt(n) ==
    LET s == FloorSqrtIn(n, 0, IF n < 46340 THEN n ELSE 46340)
    IN  IF n - s * s <= s THEN s ELSE s + 1

\* The grid value of a number: float(x) * FS.
GridV(x) == IF x.int THEN x.v * FS ELSE x.v

\* Python's x == 0, x < 0, x <= 0, x == y on int and float.
IsZero(x) == x.v = 0
IsNeg(x)  == x.v < 0
NumEq(x, y) == GridV(x) = GridV(y)

----------------------------------------------------------------------------
(* Python's str() of a number *)

DigitChars == <<"0", "1", "2", "3", "4", "5", "6", "7", "8", "9">>
Digit(d) == DigitChars[d + 1]

RECURSIVE NatStr(_)
\* The decimal digits of n >= 0.
NatStr(n) == IF n < 10 THEN <<Digit(n)>> ELSE NatStr(n \div 10) \o <<Digit(n % 10)>>

RECURSIVE PadStr(_, _)
\* The last k decimal digits of n, with leading zeros.
PadStr(n, k) == IF k = 0 THEN <<>> ELSE PadStr(n \div 10, k - 1) \o <<Digit(n % 10)>>

RECURSIVE StripZeros(_)
\* A fraction without its trailing zeros, one digit at least.
StripZeros(s) ==
    IF Len(s) > 1 /\ s[Len(s)] = "0" THEN StripZeros(SubSeq(s, 1, Len(s) - 1)) ELSE s

\* str(x): "5" for the int 5, "5.0" for the float 5.0, "-2.5", "0.25".
Str(x) ==
    LET a == Abs(x.v)
        sign == IF x.v < 0 THEN <<"-">> ELSE <<>>
    IN  IF x.int THEN sign \o NatStr(a)
        ELSE sign \o NatStr(a \div FS) \o <<".">> \o StripZeros(PadStr(a % FS, FloatDigits))

----------------------------------------------------------------------------
(* Python arithmetic on int and float *)

\* How a call ends: it returns a value, or it raises an exception with a message.
Ok(v) == [raised |-> "None", msg |-> <<>>, value |-> v]
Raise(exc, msg) == [raised |-> exc, msg |-> msg, value |-> None]

MsgZeroPower ==
    <<"0", ".", "0", " ", "c", "a", "n", "n", "o", "t", " ", "b", "e", " ", "r", "a",
      "i", "s", "e", "d", " ", "t", "o", " ", "a", " ", "n", "e", "g", "a", "t", "i",
      "v", "e", " ", "p", "o", "w", "e", "r">>

RECURSIVE IntPow(_, _)
IntPow(b, k) == IF k = 0 THEN 1 ELSE b * IntPow(b, k - 1)

PyAdd(a, b) == IF a.int /\ b.int THEN Int_(a.v + b.v) ELSE FltV(GridV(a) + GridV(b))
PySub(a, b) == IF a.int /\ b.int THEN Int_(a.v - b.v) ELSE FltV(GridV(a) - GridV(b))
PyMul(a, b) ==
    IF a.int /\ b.int THEN Int_(a.v * b.v) ELSE FltV(RoundDiv(GridV(a) * GridV(b), FS))
\* a / b, true division, for b # 0: always a float.
PyTrueDiv(a, b) == FltV(RoundDiv(GridV(a) * FS, GridV(b)))

\* base ** exponent for an integral exponent (an int, or a float without a
\* fraction).  0 to a negative power raises ZeroDivisionError.
PyPow(base, exponent) ==
    LET k  == IF exponent.int THEN exponent.v ELSE exponent.v \div FS
        bv == GridV(base)
    IN  IF base.int /\ exponent.int /\ k >= 0 THEN Ok(Int_(IntPow(base.v, k)))
        ELSE IF k = 0 THEN Ok(FltV(FS))
        ELSE IF k > 0 THEN Ok(FltV(RoundDiv(IntPow(bv, k), IntPow(FS, k - 1))))
        ELSE IF bv = 0 THEN Raise("ZeroDivisionError", MsgZeroPower)
        ELSE Ok(FltV(RoundDiv(IntPow(FS, (-k) + 1), IntPow(bv, -k))))

RECURSIVE Fact(_)
\* math.factorial(n) for n >= 0.
Fact(n) == IF n = 0 THEN 1 ELSE n * Fact(n - 1)

----------------------------------------------------------------------------
(* The math library, computed at four decimal digits and rounded to the    *)
(* float grid.                                                             *)

MathScale == 10000
MathPi    == 31416
MathLn2   == 6931
MathE     == FltV(RoundDiv(27183 * FS, MathScale))

\* A number at the math library's precision, and a result back on the grid.
ToMath(x) == GridV(x) * (MathScale \div FS)
FromMath(m) == FltV(RoundDiv(m * FS, MathScale))

\* math.radians(x)
MathRadians(x) == FltV(RoundDiv(GridV(x) * MathPi, 180 * MathScale))

\* sin t for an argument already reduced to -pi/2..pi/2: five Taylor terms.
SinSeries(t) ==
    LET t2 == RoundDiv(t * t, MathScale)
        u3 == RoundDiv(t * t2, 6 * MathScale)
        u5 == RoundDiv(u3 * t2, 20 * MathScale)
        u7 == RoundDiv(u5 * t2, 42 * MathScale)
        u9 == RoundDiv(u7 * t2, 72 * MathScale)
    IN  t - u3 + u5 - u7 + u9

\* sin of m (at the library's precision), after reduction modulo 2 pi.
SinM(m) ==
    LET t == ((m + MathPi) % (2 * MathPi)) - MathPi
        r == IF 2 * t > MathPi THEN MathPi - t
             ELSE IF 2 * t < -MathPi THEN (-MathPi) - t
             ELSE t
    IN  SinSeries(r)

CosM(m) == SinM(m + RoundDiv(MathPi, 2))

\* math.sin, math.cos, math.tan of a number in radians.
MathSin(x) == FromMath(SinM(ToMath(x)))
MathCos(x) == FromMath(CosM(ToMath(x)))
MathTan(x) ==
    LET s == SinM(ToMath(x))
        c == CosM(ToMath(x))
    IN  FltV(RoundDiv(s * FS, IF c = 0 THEN 1 ELSE c))

RECURSIVE LnM(_)
\* ln of m > 0 (at the library's precision): halve or double m into
\* 0.75..1.5, then 2 atanh((m - 1) / (m + 1)) by its series.
LnM(m) ==
    IF 2 * m >= 3 * MathScale THEN MathLn2 + LnM(RoundDiv(m, 2))
    ELSE IF 4 * m < 3 * MathScale THEN LnM(2 * m) - MathLn2
    ELSE LET z  == RoundDiv((m - MathScale) * MathScale, m + MathScale)
             z2 == RoundDiv(z * z, MathScale)
             z3 == RoundDiv(z * z2, MathScale)
             z5 == RoundDiv(z3 * z2, MathScale)
         IN  2 * (z + RoundDiv(z3, 3) + RoundDiv(z5, 5))

\* math.log(x) and math.log(x, base) for x > 0, base > 0, base # 1.
MathLog(x) == FromMath(LnM(ToMath(x)))
MathLogBase(x, base) == FltV(RoundDiv(LnM(ToMath(x)) * FS, LnM(ToMath(base))))

\* math.sqrt(x) for x >= 0.
MathSqrt(x) == FltV(RoundSqrt(GridV(x) * FS))

----------------------------------------------------------------------------
(* Calculator: the engine (src/calculator.py) *)

\* The list objects of the model: the engine's own list (self.history, bound
\* once in __init__ and never rebound) and the list a get_history call makes.
SelfHistory == "self.history"
CopyList    == "copy"
ListIds     == {SelfHistory, CopyList}
\* The caller holds no list.
NoList      == "None"

\* The content of self.history.
History == heap[SelfHistory]

\* What a call on the engine did: its name, its arguments, the exception it
\* raised ("None" when it returned) and the value it returned.
Call(op, args, outcome) ==
    [op |-> op, args |-> args, raised |-> outcome.raised, msg |-> outcome.msg,
     value |-> outcome.value]
NoCall == Call("none", <<>>, Ok(None))

\* Calculator.__init__
CalculatorInit ==
    /\ heap = [id \in ListIds |-> <<>>]
    /\ last_result = Int_(0)

\* A successful operation: self.last_result = result;
\* self.history.append(entry); return result.
Record(op, args, entry, result) ==
    /\ last_result' = result
    /\ heap' = [heap EXCEPT ![SelfHistory] = Append(@, entry)]
    /\ ret' = Call(op, args, Ok(result))
    /\ UNCHANGED held

\* An operation that records the attempt in the history and then raises.
raises_after_append(op, args, exc, msg) ==
    /\ heap' = [heap EXCEPT ![SelfHistory] = Append(@, msg)]
    /\ ret' = Call(op, args, Raise(exc, msg))
    /\ UNCHANGED <<last_result, held>>

\* An operation that raises before it touches the engine's state.
Raises(op, args, exc, msg) ==
    /\ ret' = Call(op, args, Raise(exc, msg))
    /\ UNCHANGED <<heap, last_result, held>>

\* The messages of the exceptions the engine raises.
MsgDivide ==
    <<"C", "a", "n", "n", "o", "t", " ", "d", "i", "v", "i", "d", "e", " ",
      "b", "y", " ", "z", "e", "r", "o">>
MsgSqrt ==
    <<"C", "a", "n", "n", "o", "t", " ", "c", "a", "l", "c", "u", "l", "a",
      "t", "e", " ", "s", "q", "u", "a", "r", "e", " ", "r", "o", "o", "t",
      " ", "o", "f", " ", "n", "e", "g", "a", "t", "i", "v", "e", " ", "n",
      "u", "m", "b", "e", "r">>
MsgFactorial ==
    <<"F", "a", "c", "t", "o", "r", "i", "a", "l", " ", "i", "s", " ", "o",
      "n", "l", "y", " ", "d", "e", "f", "i", "n", "e", "d", " ", "f", "o",
      "r", " ", "n", "o", "n", "-", "n", "e", "g", "a", "t", "i", "v", "e",
      " ", "i", "n", "t", "e", "g", "e", "r", "s">>
MsgLogNumber ==
    <<"L", "o", "g", "a", "r", "i", "t", "h", "m", " ", "i", "s", " ", "o",
      "n", "l", "y", " ", "d", "e", "f", "i", "n", "e", "d", " ", "f", "o",
      "r", " ", "p", "o", "s", "i", "t", "i", "v", "e", " ", "n", "u", "m",
      "b", "e", "r", "s">>
MsgLogBase ==
    <<"L", "o", "g", "a", "r", "i", "t", "h", "m", " ", "b", "a", "s", "e",
      " ", "m", "u", "s", "t", " ", "b", "e", " ", "p", "o", "s", "i", "t",
      "i", "v", "e", " ", "a", "n", "d", " ", "n", "o", "t", " ", "e", "q",
      "u", "a", "l", " ", "t", "o", " ", "1">>

\* f"{a} OP {b} = {result}"
BinaryEntry(a, symbol, b, result) ==
    Str(a) \o <<" ", symbol, " ">> \o Str(b) \o <<" ", "=", " ">> \o Str(result)

\* add without self.last_result = result.
add_keeps_last(a, b) ==
    LET result == PyAdd(a, b)
    IN  /\ heap' = [heap EXCEPT ![SelfHistory] = Append(@, BinaryEntry(a, "+", b, result))]
        /\ ret' = Call("add", <<a, b>>, Ok(result))
        /\ UNCHANGED <<last_result, held>>

add(a, b) ==
    LET result == PyAdd(a, b)
    IN  /\ Record("add", <<a, b>>, BinaryEntry(a, "+", b, result), result)

\* subtract with history[-1] = entry in place of history.append(entry).
subtract_overwrite(a, b) ==
    LET result == PySub(a, b)
        entry  == BinaryEntry(a, "-", b, result)
    IN  /\ last_result' = result
        /\ heap' = [heap EXCEPT ![SelfHistory] =
                       IF @ = <<>> THEN <<entry>> ELSE [@ EXCEPT ![Len(@)] = entry]]
        /\ ret' = Call("subtract", <<a, b>>, Ok(result))
        /\ UNCHANGED held

\* subtract with result = b - a.
subtract_reversed(a, b) ==
    LET result == PySub(b, a)
    IN  /\ Record("subtract", <<a, b>>, BinaryEntry(a, "-", b, result), result)

subtract(a, b) ==
    LET result == PySub(a, b)
    IN  /\ Record("subtract", <<a, b>>, BinaryEntry(a, "-", b, result), result)

\* multiply without self.last_result = result.
multiply_no_last(a, b) ==
    LET result == PyMul(a, b)
    IN  /\ Len(heap[SelfHistory]) < MaxHistory
        /\ heap' = [heap EXCEPT ![SelfHistory] =
                       Append(@, BinaryEntry(a, "U+00D7", b, result))]
        /\ ret' = Call("multiply", <<a, b>>, Ok(result))
        /\ UNCHANGED <<last_result, held>>

multiply(a, b) ==
    LET result == PyMul(a, b)
    IN  /\ Record("multiply", <<a, b>>, BinaryEntry(a, "U+00D7", b, result), result)

\* divide with the guard b <= 0 in place of b == 0.
divide_nonpositive(a, b) ==
    IF b.v <= 0 THEN Raises("divide", <<a, b>>, "ZeroDivisionError", MsgDivide)
    ELSE LET result == PyTrueDiv(a, b)
         IN  Record("divide", <<a, b>>, BinaryEntry(a, "U+00F7", b, result), result)

divide(a, b) ==
    IF IsZero(b) THEN Raises("divide", <<a, b>>, "ZeroDivisionError", MsgDivide)
    ELSE LET result == PyTrueDiv(a, b)
         IN  Record("divide", <<a, b>>, BinaryEntry(a, "U+00F7", b, result), result)

power(base, exponent) ==
    LET r == PyPow(base, exponent)
    IN  IF r.raised # "None" THEN Raises("power", <<base, exponent>>, r.raised, r.msg)
        ELSE Record("power", <<base, exponent>>,
                    BinaryEntry(base, "^", exponent, r.value), r.value)

\* square_root taking the root of abs(number) in place of raising.
square_root_abs(number) ==
    LET result == MathSqrt(FltV(Abs(GridV(number))))
    IN  Record("square_root", <<number>>,
               <<"U+221A">> \o Str(number) \o <<" ", "=", " ">> \o Str(result), result)

square_root(number) ==
    IF IsNeg(number) THEN Raises("square_root", <<number>>, "ValueError", MsgSqrt)
    ELSE LET result == MathSqrt(number)
         IN  Record("square_root", <<number>>,
                    <<"U+221A">> \o Str(number) \o <<" ", "=", " ">> \o Str(result),
                    result)

percentage(number, percent) ==
    LET result == PyTrueDiv(PyMul(number, percent), Int_(100))
    IN  /\ Record("percentage", <<number, percent>>,
               Str(percent) \o <<"%", " ", "o", "f", " ">> \o Str(number)
                  \o <<" ", "=", " ">> \o Str(result),
               result)

\* factorial with the guard n <= 0 in place of n < 0.
factorial_rejects_zero(n) ==
    IF ~n.int \/ n.v <= 0 THEN Raises("factorial", <<n>>, "ValueError", MsgFactorial)
    ELSE LET result == Int_(Fact(n.v))
         IN  Record("factorial", <<n>>,
                    Str(n) \o <<"!", " ", "=", " ">> \o Str(result), result)

factorial(n) ==
    IF ~n.int \/ IsNeg(n) THEN Raises("factorial", <<n>>, "ValueError", MsgFactorial)
    ELSE LET result == Int_(Fact(n.v))
         IN  Record("factorial", <<n>>,
                    Str(n) \o <<"!", " ", "=", " ">> \o Str(result), result)

\* logarithm with the guard base <= 1 in place of base <= 0 or base == 1.
logarithm_base_above_one(number, base) ==
    IF number.v <= 0 \/ GridV(base) <= FS
    THEN Raises("logarithm", <<number, base>>, "ValueError", MsgLogBase)
    ELSE LET result == MathLogBase(number, base)
         IN  Record("logarithm", <<number, base>>,
                    <<"l", "o", "g", "_">> \o Str(base) \o <<"(">> \o Str(number)
                       \o <<")", " ", "=", " ">> \o Str(result),
                    result)

\* logarithm(number, base); logarithm(number) is logarithm(number, MathE).
logarithm(number, base) ==
    IF number.v <= 0 THEN Raises("logarithm", <<number, base>>, "ValueError", MsgLogNumber)
    ELSE IF base.v <= 0 \/ NumEq(base, Int_(1))
         THEN Raises("logarithm", <<number, base>>, "ValueError", MsgLogBase)
    ELSE IF NumEq(base, MathE)
         THEN LET result == MathLog(number)
              IN  Record("logarithm", <<number, base>>,
                         <<"l", "n", "(">> \o Str(number) \o <<")", " ", "=", " ">>
                            \o Str(result),
                         result)
    ELSE LET result == MathLogBase(number, base)
         IN  Record("logarithm", <<number, base>>,
                    <<"l", "o", "g", "_">> \o Str(base) \o <<"(">> \o Str(number)
                       \o <<")", " ", "=", " ">> \o Str(result),
                    result)

\* f"{name}({angle}°) = {value}" or f"{name}({angle} rad) = {value}"
TrigEntry(name, angle, degrees, value) ==
    name \o <<"(">> \o Str(angle)
         \o (IF degrees THEN <<"U+00B0">> ELSE <<" ", "r", "a", "d">>)
         \o <<")", " ", "=", " ">> \o Str(value)

\* sine whose history entry is computed from the angle as given, the
\* result from the angle in radians.
sine_entry_unconverted(angle, degrees) ==
    LET angle_rad == IF degrees THEN MathRadians(angle) ELSE angle
        result == MathSin(angle_rad)
    IN  /\ Record("sine", <<angle, degrees>>,
               TrigEntry(<<"s", "i", "n">>, angle, degrees, MathSin(angle)), result)

sine(angle, degrees) ==
    LET angle_rad == IF degrees THEN MathRadians(angle) ELSE angle
        result == MathSin(angle_rad)
    IN  /\ Record("sine", <<angle, degrees>>,
               TrigEntry(<<"s", "i", "n">>, angle, degrees, MathSin(angle_rad)), result)

cosine(angle, degrees) ==
    LET angle_rad == IF degrees THEN MathRadians(angle) ELSE angle
        result == MathCos(angle_rad)
    IN  /\ Record("cosine", <<angle, degrees>>,
               TrigEntry(<<"c", "o", "s">>, angle, degrees, MathCos(angle_rad)), result)

tangent(angle, degrees) ==
    LET angle_rad == IF degrees THEN MathRadians(angle) ELSE angle
        result == MathTan(angle_rad)
    IN  /\ Record("tangent", <<angle, degrees>>,
               TrigEntry(<<"t", "a", "n">>, angle, degrees, MathTan(angle_rad)), result)

\* clear_history dropping only the newest entry (self.history.pop()).
clear_history_pop ==
    /\ heap' = [heap EXCEPT ![SelfHistory] =
                   IF @ = <<>> THEN @ ELSE SubSeq(@, 1, Len(@) - 1)]
    /\ ret' = Call("clear_history", <<>>, Ok(None))
    /\ UNCHANGED <<last_result, held>>

\* clear_history that also resets last_result.
clear_history_resets ==
    /\ heap' = [heap EXCEPT ![SelfHistory] = <<>>]
    /\ last_result' = Int_(0)
    /\ ret' = Call("clear_history", <<>>, Ok(None))
    /\ UNCHANGED held

\* self.history.clear(): the list object is emptied in place.
clear_history ==
    /\ heap' = [heap EXCEPT ![SelfHistory] = <<>>]
    /\ ret' = Call("clear_history", <<>>, Ok(None))
    /\ UNCHANGED <<last_result, held>>

\* self.history.copy(): the content of the new list get_history returns.
HistoryCopy == heap[SelfHistory]

\* get_history with return self.history in place of self.history.copy().
get_history_no_copy ==
    /\ held' = SelfHistory
    /\ ret' = Call("get_history", <<>>, Ok([list |-> SelfHistory]))
    /\ UNCHANGED <<heap, last_result>>

\* get_history: a new list object with the content of self.history; the
\* caller holds the reference it returns.
get_history ==
    /\ heap' = [heap EXCEPT ![CopyList] = HistoryCopy]
    /\ held' = CopyList
    /\ ret' = Call("get_history", <<>>, Ok([list |-> CopyList]))
    /\ UNCHANGED last_result

\* get_last_result
get_last_result ==
    /\ ret' = Call("get_last_result", <<>>, Ok(last_result))
    /\ UNCHANGED <<heap, last_result, held>>

\* The operations that record a calculation.
EngineOps ==
    {"add", "subtract", "multiply", "divide", "power", "square_root", "percentage",
     "factorial", "logarithm", "sine", "cosine", "tangent"}

----------------------------------------------------------------------------
(* Spec: the life of one engine, an operation at a time *)

\* The arguments the operations are called with.
Pairs == {<<Int_(2), Int_(3)>>, <<Flt(2, 5), Int_(0)>>, <<Int_(-1), Flt(2, 0)>>}
PowerPairs == Pairs \cup {<<Int_(0), Int_(-1)>>}
Args  == {Int_(4), Flt(-1, -5)}

\* No window has been created: the program runs without the GUI flag.
NoWindow ==
    [current_input |-> <<>>, pending_operation |-> "None", pending_value |-> None,
     just_calculated |-> FALSE, display |-> <<>>, error |-> <<>>]

\* No line has been interpreted.
NoLine == [line |-> <<>>, raised |-> "no call", response |-> <<>>]

\* CalculatorCLI.__init__, before any call.
Init ==
    /\ CalculatorInit
    /\ ret = NoCall
    /\ held = NoList
    /\ running = TRUE
    /\ cli = NoLine
    /\ pc = "idle"
    /\ stdin = <<>>
    /\ nread = 0
    /\ printed = <<>>
    /\ gui = NoWindow

\* The engine is called directly: the interpreter is not involved.  (The
\* model stops recording at MaxHistory entries.)
Direct ==
    /\ UNCHANGED <<running, cli, pc, stdin, nread, printed, gui>>
    /\ Len(heap'[SelfHistory]) <= MaxHistory

Next ==
    \/ \E p \in Pairs : add(p[1], p[2]) /\ Direct
    \/ \E p \in Pairs : subtract(p[1], p[2]) /\ Direct
    \/ \E p \in Pairs : multiply(p[1], p[2]) /\ Direct
    \/ \E p \in Pairs : divide(p[1], p[2]) /\ Direct
    \/ \E p \in PowerPairs : power(p[1], p[2]) /\ Direct
    \/ \E p \in Pairs : percentage(p[1], p[2]) /\ Direct
    \/ \E p \in Pairs : logarithm(p[1], p[2]) /\ Direct
    \/ \E x \in Args : logarithm(x, MathE) /\ Direct
    \/ \E x \in Args : square_root(x) /\ Direct
    \/ \E x \in Args : factorial(x) /\ Direct
    \/ \E x \in Args, d \in BOOLEAN : sine(x, d) /\ Direct
    \/ \E x \in Args, d \in BOOLEAN : cosine(x, d) /\ Direct
    \/ \E x \in Args, d \in BOOLEAN : tangent(x, d) /\ Direct
    \/ clear_history /\ Direct

Spec == Init /\ [][Next]_vars

----------------------------------------------------------------------------
(* SpecCall: one call on a fresh engine, as the module's convenience       *)
(* functions and every unit test make it (calc = Calculator(); calc.op()). *)

Nums ==
    {Int_(n) : n \in -2 .. 5}
        \cup {Flt(-2, -5), Flt(-1, 0), Flt(0, -5), Flt(0, 0), Flt(0, 5), Flt(1, 0),
              Flt(2, 0), Flt(2, 5), Flt(4, 0)}
\* Exponents without a fraction, small enough for 32-bit arithmetic.
Exponents == {x \in Nums : Abs(GridV(x)) <= 3 * FS /\ GridV(x) % FS = 0}
Angles == Nums \cup {Int_(30), Int_(45), Int_(90), Int_(180), Int_(360)}

Fresh == ret = NoCall

NextCall ==
    \/ \E a \in Nums, b \in Nums : Fresh /\ add(a, b) /\ Direct
    \/ \E a \in Nums, b \in Nums : Fresh /\ subtract(a, b) /\ Direct
    \/ \E a \in Nums, b \in Nums : Fresh /\ multiply(a, b) /\ Direct
    \/ \E a \in Nums, b \in Nums : Fresh /\ divide(a, b) /\ Direct
    \/ \E a \in Nums, b \in Exponents : Fresh /\ power(a, b) /\ Direct
    \/ \E a \in Nums, b \in Nums : Fresh /\ percentage(a, b) /\ Direct
    \/ \E a \in Nums, b \in Nums \cup {MathE} : Fresh /\ logarithm(a, b) /\ Direct
    \/ \E x \in Nums : Fresh /\ square_root(x) /\ Direct
    \/ \E x \in Nums : Fresh /\ factorial(x) /\ Direct
    \/ \E x \in Angles, d \in BOOLEAN : Fresh /\ sine(x, d) /\ Direct
    \/ \E x \in Angles, d \in BOOLEAN : Fresh /\ cosine(x, d) /\ Direct
    \/ \E x \in Angles, d \in BOOLEAN : Fresh /\ tangent(x, d) /\ Direct

SpecCall == Init /\ [][NextCall]_vars

----------------------------------------------------------------------------
(* SpecCopy: a caller that keeps the list get_history returned and appends  *)
(* to it, as test_history_independence does.                               *)

FakeEntry == <<"f", "a", "k", "e", " ", "e", "n", "t", "r", "y">>

\* history = calc.get_history(); history.append("fake entry")
caller_append ==
    /\ held # NoList
    /\ Len(heap[held]) <= MaxHistory
    /\ heap' = [heap EXCEPT ![held] = Append(@, FakeEntry)]
    /\ ret' = Call("list.append", <<>>, Ok(None))
    /\ UNCHANGED <<last_result, held>>

NextCopy ==
    \/ \E p \in {<<Int_(1), Int_(1)>>, <<Int_(5), Int_(3)>>} : add(p[1], p[2]) /\ Direct
    \/ \E p \in {<<Int_(5), Int_(3)>>} : subtract(p[1], p[2]) /\ Direct
    \/ clear_history /\ Direct
    \/ get_history /\ Direct
    \/ get_last_result /\ Direct
    \/ caller_append /\ Direct

SpecCopy == Init /\ [][NextCopy]_vars

----------------------------------------------------------------------------
(* Python str methods, float() and int() as the interpreter uses them *)

UpperChars ==
    <<"A", "B", "C", "D", "E", "F", "G", "H", "I", "J", "K", "L", "M",
      "N", "O", "P", "Q", "R", "S", "T", "U", "V", "W", "X", "Y", "Z">>
LowerChars ==
    <<"a", "b", "c", "d", "e", "f", "g", "h", "i", "j", "k", "l", "m",
      "n", "o", "p", "q", "r", "s", "t", "u", "v", "w", "x", "y", "z">>
Whitespace == {" ", "\t"}

IsDigit(c) == \E d \in 0..9 : Digit(d) = c
IsLetter(c) == \E i \in 1..26 : c = LowerChars[i] \/ c = UpperChars[i]

LowerChar(c) ==
    IF \E i \in 1..26 : UpperChars[i] = c
    THEN LowerChars[CHOOSE i \in 1..26 : UpperChars[i] = c]
    ELSE c

RECURSIVE Lower(_)
\* s.lower()
Lower(s) == IF s = <<>> THEN <<>> ELSE <<LowerChar(Head(s))>> \o Lower(Tail(s))

RECURSIVE LStrip(_)
LStrip(s) == IF s # <<>> /\ Head(s) \in Whitespace THEN LStrip(Tail(s)) ELSE s

RECURSIVE RStrip(_)
RStrip(s) ==
    IF s # <<>> /\ s[Len(s)] \in Whitespace THEN RStrip(SubSeq(s, 1, Len(s) - 1)) ELSE s

\* s.strip()
Strip(s) == RStrip(LStrip(s))

\* sub in s
Contains(s, sub) ==
    \E i \in 1..(Len(s) - Len(sub) + 1) : SubSeq(s, i, i + Len(sub) - 1) = sub

RECURSIVE Split(_, _)
\* s.split(c) for a separator of one character: the pieces between every
\* occurrence of c.
Split(s, c) ==
    IF \E i \in 1..Len(s) : s[i] = c
    THEN LET i == CHOOSE k \in 1..Len(s) : s[k] = c /\ \A j \in 1..(k - 1) : s[j] # c
         IN  <<SubSeq(s, 1, i - 1)>> \o Split(SubSeq(s, i + 1, Len(s)), c)
    ELSE <<s>>

AllDigits(s) == \A i \in 1..Len(s) : IsDigit(s[i])

RECURSIVE DigitsValue(_)
\* int(s) of a string of decimal digits (0 for the empty string, which is
\* what an absent whole or fractional part of a float literal counts for).
DigitsValue(s) ==
    IF s = <<>> THEN 0
    ELSE DigitsValue(SubSeq(s, 1, Len(s) - 1)) * 10
            + (CHOOSE d \in 0..9 : Digit(d) = s[Len(s)])

\* The float "whole.frac" denotes, rounded to the grid.
DecimalValue(whole, frac) ==
    DigitsValue(whole) * FS + RoundDiv(DigitsValue(frac) * FS, 10 ^ Len(frac))

\* float(s) with no sign allowed before the digits.
parse_float_unsigned(s) ==
    LET parts == Split(Strip(s), ".")
        frac == IF Len(parts) = 2 THEN parts[2] ELSE <<>>
    IN  IF /\ Len(parts) <= 2
           /\ AllDigits(parts[1]) /\ AllDigits(frac)
           /\ Len(parts[1]) + Len(frac) > 0
        THEN Ok(FltV(DecimalValue(parts[1], frac)))
        ELSE Raise("ValueError", <<>>)

\* float(s): surrounding whitespace is ignored, then an optional sign, then
\* digits with an optional point ("5", "5.", ".5", "2.50").  Anything else
\* raises ValueError.  The forms with an exponent, an underscore, "inf" and
\* "nan" are left out: no modelled line contains one.
ParseFloat(s) ==
    LET t == Strip(s)
        signed == t # <<>> /\ Head(t) \in {"+", "-"}
        body == IF signed THEN Tail(t) ELSE t
        parts == Split(body, ".")
        whole == parts[1]
        frac == IF Len(parts) = 2 THEN parts[2] ELSE <<>>
        valid == /\ Len(parts) <= 2
                 /\ AllDigits(whole) /\ AllDigits(frac)
                 /\ Len(whole) + Len(frac) > 0
        m == DecimalValue(whole, frac)
    IN  IF valid
        THEN Ok(FltV(IF signed /\ Head(t) = "-" THEN -m ELSE m))
        ELSE Raise("ValueError", <<>>)

----------------------------------------------------------------------------
(* The regular expressions of parse_expression.  re.match anchors a        *)
(* pattern at the start of the line and not at its end.  A position is an  *)
(* index into the line; 0 says that the match failed.  Every quantifier    *)
(* is followed by a character it cannot itself match, so the greedy match  *)
(* is the only one.                                                        *)

RECURSIVE DigitsEnd(_, _)
\* \d* from position i: the position after the digits.
DigitsEnd(s, i) == IF i <= Len(s) /\ IsDigit(s[i]) THEN DigitsEnd(s, i + 1) ELSE i

\* (\d+) from position i.
IntEnd(s, i) ==
    IF i = 0 THEN 0
    ELSE LET j == DigitsEnd(s, i) IN IF j = i THEN 0 ELSE j

\* (\d+(?:\.\d+)?) from position i.
NumEnd(s, i) ==
    LET j == IntEnd(s, i)
    IN  IF j # 0 /\ j < Len(s) /\ s[j] = "." /\ IsDigit(s[j + 1])
        THEN DigitsEnd(s, j + 1)
        ELSE j

\* A literal text from position i.
LitEnd(s, i, lit) ==
    IF i # 0 /\ i + Len(lit) - 1 <= Len(s) /\ SubSeq(s, i, i + Len(lit) - 1) = lit
    THEN i + Len(lit)
    ELSE 0

RECURSIVE SpaceRun(_, _)
SpaceRun(s, i) == IF i <= Len(s) /\ s[i] \in Whitespace THEN SpaceRun(s, i + 1) ELSE i

\* \s* from position i.
SpacesEnd(s, i) == IF i = 0 THEN 0 ELSE SpaceRun(s, i)

\* \s+ from position i.
Spaces1End(s, i) == LET j == SpacesEnd(s, i) IN IF j > i THEN j ELSE 0

NoMatch == [ok |-> FALSE, groups |-> <<>>]
\* The groups of a match that ended at position end (0: no match).
Match(end, groups) == IF end = 0 THEN NoMatch ELSE [ok |-> TRUE, groups |-> groups]

\* re.match(r'(\d+(?:\.\d+)?)%\s+of\s+(\d+(?:\.\d+)?)', s)
MatchPercentage(s) ==
    LET e1 == NumEnd(s, 1)
        b2 == Spaces1End(s, LitEnd(s, Spaces1End(s, LitEnd(s, e1, <<"%">>)), <<"o", "f">>))
        e2 == NumEnd(s, b2)
    IN  IF e2 = 0 THEN NoMatch
        ELSE Match(e2, <<SubSeq(s, 1, e1 - 1), SubSeq(s, b2, e2 - 1)>>)

\* re.match(r'(\d+)!', s)
MatchFactorial(s) ==
    LET e1 == IntEnd(s, 1)
    IN  IF LitEnd(s, e1, <<"!">>) = 0 THEN NoMatch
        ELSE Match(e1, <<SubSeq(s, 1, e1 - 1)>>)

\* The function pattern with an optional minus sign before the number.
match_function_signed(name, s) ==
    LET b1 == LitEnd(s, 1, name \o <<"(">>)
        n1 == IF b1 # 0 /\ b1 <= Len(s) /\ s[b1] = "-" THEN b1 + 1 ELSE b1
        e1 == NumEnd(s, n1)
    IN  IF LitEnd(s, e1, <<")">>) = 0 THEN NoMatch
        ELSE Match(e1, <<SubSeq(s, b1, e1 - 1)>>)

\* re.match(name + r'\((\d+(?:\.\d+)?)\)', s), for sqrt, ln, sin, cos, tan
MatchFunction(name, s) ==
    LET b1 == LitEnd(s, 1, name \o <<"(">>)
        e1 == NumEnd(s, b1)
    IN  IF LitEnd(s, e1, <<")">>) = 0 THEN NoMatch
        ELSE Match(e1, <<SubSeq(s, b1, e1 - 1)>>)

\* re.match(r'log\((\d+(?:\.\d+)?),\s*(\d+(?:\.\d+)?)\)', s)
MatchLog(s) ==
    LET b1 == LitEnd(s, 1, <<"l", "o", "g", "(">>)
        e1 == NumEnd(s, b1)
        b2 == SpacesEnd(s, LitEnd(s, e1, <<",">>))
        e2 == NumEnd(s, b2)
    IN  IF LitEnd(s, e2, <<")">>) = 0 THEN NoMatch
        ELSE Match(e2, <<SubSeq(s, b1, e1 - 1), SubSeq(s, b2, e2 - 1)>>)

\* re.match(r'(\d+(?:\.\d+)?)\s*\*\*\s*(\d+(?:\.\d+)?)', s)
MatchPower(s) ==
    LET e1 == NumEnd(s, 1)
        b2 == SpacesEnd(s, LitEnd(s, SpacesEnd(s, e1), <<"*", "*">>))
        e2 == NumEnd(s, b2)
    IN  IF e2 = 0 THEN NoMatch
        ELSE Match(e2, <<SubSeq(s, 1, e1 - 1), SubSeq(s, b2, e2 - 1)>>)

----------------------------------------------------------------------------
(* eval(expression, {"__builtins__": {}}, {}): Python's evaluation of an    *)
(* expression of numbers, names, parentheses, commas, calls and the        *)
(* operators + - * / // % **.  The whole text is parsed before any of it   *)
(* is evaluated, so a syntax error anywhere wins over an error of          *)
(* evaluation; evaluation goes left to right and stops at the first        *)
(* exception.  With no builtins and no variables every name raises         *)
(* NameError.  Python's keywords (and, or, not, if, in, is, lambda) and    *)
(* its other operators are left out: no modelled line contains one.        *)

\* A value that is not a number: a tuple.
Tuple == [tuple |-> TRUE]
IsNum(x) == "int" \in DOMAIN x

MsgDivisionByZero ==
    <<"d", "i", "v", "i", "s", "i", "o", "n", " ", "b", "y", " ", "z", "e", "r", "o">>

\* a // b and a % b for b # 0: the quotient is rounded down, the remainder
\* takes the sign of b.
PyFloorDiv(a, b) ==
    IF a.int /\ b.int THEN Int_(a.v \div b.v)
    ELSE FltV((GridV(a) \div GridV(b)) * FS)
PyMod(a, b) ==
    IF a.int /\ b.int THEN Int_(a.v - b.v * (a.v \div b.v))
    ELSE FltV(GridV(a) - GridV(b) * (GridV(a) \div GridV(b)))

\* a op b for two numbers.
NumOp(op, a, b) ==
    CASE op = "+" -> Ok(PyAdd(a, b))
      [] op = "-" -> Ok(PySub(a, b))
      [] op = "*" -> Ok(PyMul(a, b))
      [] op = "**" -> PyPow(a, b)
      [] op = "/" -> IF IsZero(b) THEN Raise("ZeroDivisionError", MsgDivisionByZero)
                     ELSE Ok(PyTrueDiv(a, b))
      [] op = "//" -> IF IsZero(b) THEN Raise("ZeroDivisionError", MsgDivisionByZero)
                      ELSE Ok(PyFloorDiv(a, b))
      [] op = "%" -> IF IsZero(b) THEN Raise("ZeroDivisionError", MsgDivisionByZero)
                     ELSE Ok(PyMod(a, b))

\* a op b for any two values: tuples can be concatenated and repeated,
\* every other use of a tuple is a TypeError.
BinOp(op, a, b) ==
    IF IsNum(a) /\ IsNum(b) THEN NumOp(op, a, b)
    ELSE IF \/ op = "+" /\ ~IsNum(a) /\ ~IsNum(b)
            \/ op = "*" /\ IsNum(a) /\ a.int
            \/ op = "*" /\ IsNum(b) /\ b.int
         THEN Ok(Tuple)
         ELSE Raise("TypeError", <<>>)

\* +a and -a
UnaryOp(op, a) ==
    IF ~IsNum(a) THEN Raise("TypeError", <<>>)
    ELSE IF op = "-" THEN Ok([a EXCEPT !.v = -a.v]) ELSE Ok(a)

\* A numeric literal: an int ("12"; not "012": leading zeros are a syntax
\* error unless every digit is zero) or a float ("1.5", "5.", ".5").
NumberToken(text) ==
    LET parts == Split(text, ".")
    IN  IF Len(parts) = 2
        THEN [k |-> "num", v |-> FltV(DecimalValue(parts[1], parts[2]))]
        ELSE IF Len(text) > 1 /\ Head(text) = "0" /\ DigitsValue(text) # 0
             THEN [k |-> "bad", v |-> text]
             ELSE [k |-> "num", v |-> Int_(DigitsValue(text))]

RECURSIVE NameEnd(_, _)
NameEnd(s, i) ==
    IF i <= Len(s) /\ (IsLetter(s[i]) \/ IsDigit(s[i])) THEN NameEnd(s, i + 1) ELSE i

\* The position after the numeric literal that starts at position i.
LiteralEnd(s, i) ==
    LET j == DigitsEnd(s, i)
    IN  IF j <= Len(s) /\ s[j] = "." THEN DigitsEnd(s, j + 1) ELSE j

RECURSIVE Tokens(_, _)
\* The tokens of s from position i on.
Tokens(s, i) ==
    IF i > Len(s) THEN <<>>
    ELSE IF s[i] \in Whitespace THEN Tokens(s, i + 1)
    ELSE IF IsDigit(s[i]) \/ (s[i] = "." /\ i < Len(s) /\ IsDigit(s[i + 1]))
    THEN LET j == LiteralEnd(s, i)
         IN  IF j <= Len(s) /\ IsLetter(s[j])
             THEN <<[k |-> "bad", v |-> SubSeq(s, i, j)]>>
             ELSE <<NumberToken(SubSeq(s, i, j - 1))>> \o Tokens(s, j)
    ELSE IF IsLetter(s[i])
    THEN LET j == NameEnd(s, i)
         IN  <<[k |-> "name", v |-> SubSeq(s, i, j - 1)]>> \o Tokens(s, j)
    ELSE IF i < Len(s) /\ SubSeq(s, i, i + 1) \in {<<"*", "*">>, <<"/", "/">>}
    THEN <<[k |-> "op", v |-> s[i] \o s[i + 1]]>> \o Tokens(s, i + 2)
    ELSE IF s[i] \in {"+", "-", "*", "/", "%", "(", ")", ","}
    THEN <<[k |-> "op", v |-> s[i]]>> \o Tokens(s, i + 1)
    ELSE <<[k |-> "bad", v |-> <<s[i]>>]>>

\* The token at position i is the operator op.
IsOp(ts, i, op) == i <= Len(ts) /\ ts[i].k = "op" /\ ts[i].v = op

\* What parsing and evaluating a piece of the text gave: whether the syntax
\* was right, the first exception of the evaluation, the value, and the
\* position of the token after the piece.
Parsed(exc, v, i) == [syn |-> TRUE, exc |-> exc, v |-> v, i |-> i]
SynErr == [syn |-> FALSE, exc |-> "None", v |-> None, i |-> 0]

\* The left operand is evaluated first, then the right one, then the operator.
Apply(op, l, r) ==
    LET o == IF l.exc # "None" THEN Raise(l.exc, <<>>)
             ELSE IF r.exc # "None" THEN Raise(r.exc, <<>>)
             ELSE BinOp(op, l.v, r.v)
    IN  Parsed(o.raised, o.value, r.i)

RECURSIVE Parse(_, _, _)
\* The parser and evaluator, one grammar rule at a time.  A rule that
\* starts a construct takes the position of its first token; a rule that
\* continues one ("... rest") takes what was parsed to its left.
Parse(rule, ts, at) ==
    CASE rule = "list" ->
            \* expression (',' expression)* [',']: with a comma, a tuple
            LET first == Parse("arith", ts, at)
            IN  IF first.syn THEN Parse("list rest", ts, first) ELSE SynErr
      [] rule = "list rest" ->
            IF ~IsOp(ts, at.i, ",") THEN at
            ELSE IF at.i + 1 > Len(ts) \/ IsOp(ts, at.i + 1, ")")
            THEN Parsed(at.exc, Tuple, at.i + 1)
            ELSE LET e == Parse("arith", ts, at.i + 1)
                 IN  IF ~e.syn THEN SynErr
                     ELSE Parse("list rest", ts,
                                Parsed(IF at.exc # "None" THEN at.exc ELSE e.exc,
                                       Tuple, e.i))
      [] rule = "arith" ->
            \* term (('+' | '-') term)*
            LET t == Parse("term", ts, at)
            IN  IF t.syn THEN Parse("arith rest", ts, t) ELSE SynErr
      [] rule = "arith rest" ->
            IF IsOp(ts, at.i, "+") \/ IsOp(ts, at.i, "-")
            THEN LET r == Parse("term", ts, at.i + 1)
                 IN  IF ~r.syn THEN SynErr
                     ELSE Parse("arith rest", ts, Apply(ts[at.i].v, at, r))
            ELSE at
      [] rule = "term" ->
            \* factor (('*' | '/' | '//' | '%') factor)*
            LET f == Parse("factor", ts, at)
            IN  IF f.syn THEN Parse("term rest", ts, f) ELSE SynErr
      [] rule = "term rest" ->
            IF \E op \in {"*", "/", "//", "%"} : IsOp(ts, at.i, op)
            THEN LET r == Parse("factor", ts, at.i + 1)
                 IN  IF ~r.syn THEN SynErr
                     ELSE Parse("term rest", ts, Apply(ts[at.i].v, at, r))
            ELSE at
      [] rule = "factor" ->
            \* ('+' | '-') factor | power
            IF IsOp(ts, at, "+") \/ IsOp(ts, at, "-")
            THEN LET f == Parse("factor", ts, at + 1)
                     o == IF f.exc # "None" THEN Raise(f.exc, <<>>)
                          ELSE UnaryOp(ts[at].v, f.v)
                 IN  IF ~f.syn THEN SynErr ELSE Parsed(o.raised, o.value, f.i)
            ELSE Parse("power", ts, at)
      [] rule = "power" ->
            \* atom trailer* ['**' factor]: ** binds tighter than a sign on
            \* its left, looser than a sign on its right, and groups to
            \* the right
            LET a == Parse("atom", ts, at)
                p == IF a.syn THEN Parse("trailers", ts, a) ELSE SynErr
            IN  IF ~p.syn THEN SynErr
                ELSE IF IsOp(ts, p.i, "**")
                THEN LET f == Parse("factor", ts, p.i + 1)
                     IN  IF ~f.syn THEN SynErr ELSE Apply("**", p, f)
                ELSE p
      [] rule = "trailers" ->
            \* '(' [arguments] ')' after a value calls it: the value is
            \* evaluated, then the arguments, and then the call fails,
            \* since no value here is callable
            IF ~IsOp(ts, at.i, "(") THEN at
            ELSE IF IsOp(ts, at.i + 1, ")")
            THEN Parse("trailers", ts,
                       Parsed(IF at.exc # "None" THEN at.exc ELSE "TypeError",
                              None, at.i + 2))
            ELSE LET args == Parse("list", ts, at.i + 1)
                 IN  IF ~args.syn \/ ~IsOp(ts, args.i, ")") THEN SynErr
                     ELSE Parse("trailers", ts,
                                Parsed(IF at.exc # "None" THEN at.exc
                                       ELSE IF args.exc # "None" THEN args.exc
                                       ELSE "TypeError",
                                       None, args.i + 1))
      [] rule = "atom" ->
            \* NUMBER | NAME | '(' [list] ')'
            IF at > Len(ts) THEN SynErr
            ELSE IF ts[at].k = "num" THEN Parsed("None", ts[at].v, at + 1)
            ELSE IF ts[at].k = "name" THEN Parsed("NameError", None, at + 1)
            ELSE IF IsOp(ts, at, "(")
            THEN IF IsOp(ts, at + 1, ")") THEN Parsed("None", Tuple, at + 2)
                 ELSE LET e == Parse("list", ts, at + 1)
                      IN  IF e.syn /\ IsOp(ts, e.i, ")") THEN Parsed(e.exc, e.v, e.i + 1)
                          ELSE SynErr
            ELSE SynErr

\* What eval makes of the parse of the tokens ts: all of them must have
\* been used.
EvalParsed(ts, e) ==
    IF ~e.syn \/ e.i # Len(ts) + 1 THEN Raise("SyntaxError", <<>>)
    ELSE IF e.exc = "ZeroDivisionError" THEN Raise(e.exc, MsgDivisionByZero)
    ELSE IF e.exc # "None" THEN Raise(e.exc, <<>>)
    ELSE Ok(e.v)

EvalTokens(ts) == EvalParsed(ts, Parse("list", ts, 1))

\* eval(s): the value of the expression, or the exception it raises.
Eval(s) == EvalTokens(Tokens(s, 1))

----------------------------------------------------------------------------
(* CalculatorCLI: the command interpreter (src/main.py) *)

\* The texts parse_expression answers with.
GoodbyeText ==
    <<"U+1F44B", " ", "G", "o", "o", "d", "b", "y", "e", "!">>
NoHistoryText ==
    <<"U+1F4DC", " ", "N", "o", " ", "c", "a", "l", "c", "u", "l", "a",
      "t", "i", "o", "n", "s", " ", "i", "n", " ", "h", "i", "s", "t", "o",
      "r", "y">>
HistoryHeader ==
    <<"U+1F4DC", " ", "H", "i", "s", "t", "o", "r", "y", ":", "\n">>
ClearedText ==
    <<"U+1F5D1", "U+FE0F", " ", " ", "H", "i", "s", "t", "o", "r", "y",
      " ", "c", "l", "e", "a", "r", "e", "d">>
LastResultPrefix ==
    <<"U+1F522", " ", "L", "a", "s", "t", " ", "r", "e", "s", "u", "l",
      "t", ":", " ">>
OkMark ==
    <<"U+2705", " ">>
InvalidText ==
    <<"U+274C", " ", "I", "n", "v", "a", "l", "i", "d", " ", "e", "x", "p",
      "r", "e", "s", "s", "i", "o", "n", ".", " ", "T", "y", "p", "e", " ",
      "'", "h", "e", "l", "p", "'", " ", "f", "o", "r", " ", "u", "s", "a",
      "g", "e", " ", "e", "x", "a", "m", "p", "l", "e", "s", ".">>
ErrorPrefix ==
    <<"U+274C", " ", "E", "r", "r", "o", "r", ":", " ">>
DivideByZeroText ==
    <<"U+274C", " ", "E", "r", "r", "o", "r", ":", " ", "C", "a", "n", "n",
      "o", "t", " ", "d", "i", "v", "i", "d", "e", " ", "b", "y", " ", "z",
      "e", "r", "o">>

\* One branch of parse_expression: the call it makes on the engine, the
\* arguments it converted from the text, and the text it puts before the
\* result in its answer.
Step(kind, args, text) == [kind |-> kind, args |-> args, text |-> text]

\* The operators of basic arithmetic and their engine operations, in the
\* order of the dictionary.
operators == <<"+", "-", "*", "/">>
op_func == <<"add", "subtract", "multiply", "divide">>

\* The loop over the operators left out: every line that reaches it goes
\* to eval.
operators_skipped(expression, k) ==
    Step("eval", <<>>, expression \o <<" ", "=", " ">>)

RECURSIVE operator_step_at_first(_, _)
\* The loop over the operators with expression.split(op_symbol, 1) in place
\* of expression.split(op_symbol): the line is cut at the first occurrence
\* of the operator only.
operator_step_at_first(expression, k) ==
    IF k > Len(operators) THEN Step("eval", <<>>, expression \o <<" ", "=", " ">>)
    ELSE LET op_symbol == operators[k]
             at == CHOOSE i \in 1 .. Len(expression) :
                      /\ expression[i] = op_symbol
                      /\ \A j \in 1 .. (i - 1) : expression[j] # op_symbol
             a == ParseFloat(SubSeq(expression, 1, at - 1))
             b == ParseFloat(SubSeq(expression, at + 1, Len(expression)))
         IN  IF /\ Contains(expression, <<op_symbol>>)
                /\ a.raised = "None"
                /\ b.raised = "None"
             THEN Step(op_func[k], <<a.value, b.value>>,
                       Str(a.value) \o <<" ", op_symbol, " ">> \o Str(b.value)
                           \o <<" ", "=", " ">>)
             ELSE operator_step_at_first(expression, k + 1)

RECURSIVE OperatorStep(_, _)
\* The loop over the operators from the k-th on: the first operator that
\* occurs in the line, splits it in exactly two parts and has a float on
\* both sides is applied; when none is, the line goes to eval.
OperatorStep(expression, k) ==
    IF k > Len(operators) THEN Step("eval", <<>>, expression \o <<" ", "=", " ">>)
    ELSE LET op_symbol == operators[k]
             parts == Split(expression, op_symbol)
             a == ParseFloat(parts[1])
             b == ParseFloat(parts[2])
         IN  IF /\ Contains(expression, <<op_symbol>>)
                /\ Len(parts) = 2
                /\ a.raised = "None"
                /\ b.raised = "None"
             THEN Step(op_func[k], <<a.value, b.value>>,
                       Str(a.value) \o <<" ", op_symbol, " ">> \o Str(b.value)
                           \o <<" ", "=", " ">>)
             ELSE OperatorStep(expression, k + 1)

\* The branch parse_expression takes on a stripped, lower-cased line: the
\* commands, then the patterns in the order of the code, then the
\* operators, then eval.
Interpret(expression) ==
    LET percentage_match == MatchPercentage(expression)
        factorial_match == MatchFactorial(expression)
        sqrt_match == MatchFunction(<<"s", "q", "r", "t">>, expression)
        log_match == MatchLog(expression)
        ln_match == MatchFunction(<<"l", "n">>, expression)
        trig_name == IF MatchFunction(<<"s", "i", "n">>, expression).ok THEN <<"s", "i", "n">>
                     ELSE IF MatchFunction(<<"c", "o", "s">>, expression).ok
                     THEN <<"c", "o", "s">>
                     ELSE <<"t", "a", "n">>
        trig_match == MatchFunction(trig_name, expression)
        power_match == MatchPower(expression)
        Float(g) == ParseFloat(g).value
    IN  IF expression \in {<<"q", "u", "i", "t">>, <<"e", "x", "i", "t">>} THEN Step("quit", <<>>, <<>>)
        ELSE IF expression = <<"h", "e", "l", "p">> THEN Step("help", <<>>, <<>>)
        ELSE IF expression = <<"h", "i", "s", "t", "o", "r", "y">> THEN Step("history", <<>>, <<>>)
        ELSE IF expression = <<"c", "l", "e", "a", "r">> THEN Step("clear", <<>>, <<>>)
        ELSE IF expression = <<"l", "a", "s", "t">> THEN Step("last", <<>>, <<>>)
        ELSE IF percentage_match.ok
        THEN LET percent == Float(percentage_match.groups[1])
                 number == Float(percentage_match.groups[2])
             IN  Step("percentage", <<number, percent>>,
                      Str(percent) \o <<"%", " ", "o", "f", " ">> \o Str(number) \o <<" ", "=", " ">>)
        ELSE IF factorial_match.ok
        THEN LET number == Int_(DigitsValue(factorial_match.groups[1]))
             IN  Step("factorial", <<number>>, Str(number) \o <<"!", " ", "=", " ">>)
        ELSE IF sqrt_match.ok
        THEN LET number == Float(sqrt_match.groups[1])
             IN  Step("square_root", <<number>>,
                      <<"U+221A">> \o Str(number) \o <<" ", "=", " ">>)
        ELSE IF log_match.ok
        THEN LET number == Float(log_match.groups[1])
                 base == Float(log_match.groups[2])
             IN  Step("logarithm", <<number, base>>,
                      <<"l", "o", "g", "U+208D">> \o Str(base) \o <<"U+208E", "(">>
                          \o Str(number) \o <<")", " ", "=", " ">>)
        ELSE IF ln_match.ok
        THEN LET number == Float(ln_match.groups[1])
             IN  Step("logarithm", <<number, MathE>>,
                      <<"l", "n", "(">> \o Str(number) \o <<")", " ", "=", " ">>)
        ELSE IF trig_match.ok
        THEN LET angle == Float(trig_match.groups[1])
             IN  Step(CASE trig_name = <<"s", "i", "n">> -> "sine"
                        [] trig_name = <<"c", "o", "s">> -> "cosine"
                        [] OTHER -> "tangent",
                      <<angle>>,
                      trig_name \o <<"(">> \o Str(angle) \o <<"U+00B0", ")", " ", "=", " ">>)
        ELSE IF Contains(expression, <<"*", "*">>) /\ power_match.ok
        THEN LET base == Float(power_match.groups[1])
                 exponent == Float(power_match.groups[2])
             IN  Step("power", <<base, exponent>>,
                      Str(base) \o <<"^">> \o Str(exponent) \o <<" ", "=", " ">>)
        ELSE OperatorStep(expression, 1)

\* The branches that call no operation of the engine.
NoEngineKinds == {"quit", "help", "eval"}

\* The call parse_expression makes on the engine in its branch.
EngineCall(step) ==
    CASE step.kind = "percentage" -> percentage(step.args[1], step.args[2])
      [] step.kind = "factorial" -> factorial(step.args[1])
      [] step.kind = "square_root" -> square_root(step.args[1])
      [] step.kind = "logarithm" -> logarithm(step.args[1], step.args[2])
      [] step.kind = "sine" -> sine(step.args[1], TRUE)
      [] step.kind = "cosine" -> cosine(step.args[1], TRUE)
      [] step.kind = "tangent" -> tangent(step.args[1], TRUE)
      [] step.kind = "power" -> power(step.args[1], step.args[2])
      [] step.kind = "add" -> add(step.args[1], step.args[2])
      [] step.kind = "subtract" -> subtract(step.args[1], step.args[2])
      [] step.kind = "multiply" -> multiply(step.args[1], step.args[2])
      [] step.kind = "divide" -> divide(step.args[1], step.args[2])
      [] step.kind = "clear" -> clear_history
      [] step.kind = "last" -> get_last_result
      [] step.kind = "history" ->
            \* the copy get_history returns is dropped when the branch returns
            /\ ret' = Call("get_history", <<>>, Ok(None))
            /\ UNCHANGED <<heap, last_result, held>>
      [] step.kind \in NoEngineKinds ->
            /\ ret' = NoCall
            /\ UNCHANGED <<heap, last_result, held>>

RECURSIVE HistoryLines(_, _)
\* "\n".join(f"  {i+1}. {calc}" for i, calc in enumerate(entries)), from
\* the i-th entry on.
HistoryLines(entries, i) ==
    IF i > Len(entries) THEN <<>>
    ELSE <<" ", " ">> \o NatStr(i) \o <<".", " ">> \o entries[i]
            \o (IF i < Len(entries) THEN <<"\n">> ELSE <<>>)
            \o HistoryLines(entries, i + 1)

\* history[:10], the first ten entries in place of the last ten.
first_ten(history) ==
    SubSeq(history, 1, IF Len(history) > 10 THEN 10 ELSE Len(history))

\* history[-10:]
LastTen(history) ==
    SubSeq(history, IF Len(history) > 10 THEN Len(history) - 9 ELSE 1, Len(history))

\* The eval branch with "except Exception" in place of the four exceptions
\* its inner try names: whatever eval raises, the answer is the
\* invalid-expression text.
eval_answer_invalid(expression, result) ==
    IF result.raised = "None" /\ IsNum(result.value)
    THEN Ok(OkMark \o expression \o <<" ", "=", " ">> \o Str(result.value))
    ELSE Ok(InvalidText)

\* What the branch makes of eval's result: a number is reported, the four
\* exceptions the inner try names fall to the invalid-expression answer,
\* any other exception leaves the branch.
EvalAnswer(expression, result) ==
    IF result.raised = "None"
    THEN IF IsNum(result.value)
         THEN Ok(OkMark \o expression \o <<" ", "=", " ">> \o Str(result.value))
         ELSE Ok(InvalidText)
    ELSE IF result.raised \in {"SyntaxError", "NameError", "TypeError", "ValueError"}
    THEN Ok(InvalidText)
    ELSE result

\* result = eval(expression, ...) and the lines around it.
EvalBranch(expression) == EvalAnswer(expression, Eval(expression))

\* What the body of the try statement ends with, given the branch, the
\* engine call it made and the history it read: the text it returns or the
\* exception that leaves it.
TryBody(expression, step, call, history) ==
    CASE step.kind = "quit" -> Ok(GoodbyeText)
      [] step.kind = "help" -> Ok(<<>>)
      [] step.kind = "history" ->
            IF history = <<>> THEN Ok(NoHistoryText)
            ELSE Ok(HistoryHeader \o HistoryLines(LastTen(history), 1))
      [] step.kind = "clear" -> Ok(ClearedText)
      [] step.kind = "last" -> Ok(LastResultPrefix \o Str(call.value))
      [] step.kind = "eval" -> EvalBranch(expression)
      [] OTHER ->
            IF call.raised = "None" THEN Ok(OkMark \o step.text \o Str(call.value))
            ELSE Raise(call.raised, call.msg)

\* The except clauses with ZeroDivisionError and Exception left out.
except_value_error_only(outcome) ==
    IF outcome.raised = "ValueError" THEN Ok(ErrorPrefix \o outcome.msg)
    ELSE outcome

\* The except clauses of parse_expression: ZeroDivisionError, ValueError,
\* then Exception, the base of every exception the body can raise.
except_clauses(outcome) ==
    IF outcome.raised = "None" THEN outcome
    ELSE IF outcome.raised = "ZeroDivisionError" THEN Ok(DivideByZeroText)
    ELSE IF outcome.raised = "ValueError" THEN Ok(ErrorPrefix \o outcome.msg)
    ELSE Ok(ErrorPrefix \o outcome.msg)

\* What parse_expression returns to its caller.
Returned(input, outcome) ==
    [line |-> input, raised |-> outcome.raised, response |-> outcome.value]

\* The try statement with the running flag assigned on every line: false
\* on quit, true on any other line.
try_statement_resumes(input, expression, step) ==
    /\ EngineCall(step)
    /\ running' = (step.kind # "quit")
    /\ cli' = Returned(input, except_clauses(TryBody(expression, step, ret', HistoryCopy)))

\* The try statement of parse_expression in the branch step.
TryStatement(input, expression, step) ==
    /\ EngineCall(step)
    /\ running' = (running /\ step.kind # "quit")
    /\ cli' = Returned(input, except_clauses(TryBody(expression, step, ret', HistoryCopy)))

Interpreted(input, expression) == TryStatement(input, expression, Interpret(expression))

\* parse_expression without expression.strip().lower(): the line is
\* matched as it was typed.
parse_as_typed(input) == Interpreted(input, input)

\* cli.parse_expression(input)
parse_expression(input) == Interpreted(input, Lower(Strip(input)))

----------------------------------------------------------------------------
(* SpecLine: one line given to a CalculatorCLI that is new, or whose engine  *)
(* has been called once before, as the tests of src/tests/test_cli.py do.  *)

\* The commands, as typed: case and surrounding whitespace vary.
CommandLines ==
    {<<"q", "u", "i", "t">>, <<"e", "x", "i", "t">>, <<"h", "e", "l", "p">>,
     <<"h", "i", "s", "t", "o", "r", "y">>, <<"c", "l", "e", "a", "r">>,
     <<"l", "a", "s", "t">>, <<"Q", "U", "I", "T">>,
     <<" ", " ", "E", "x", "i", "t", " ", " ">>, <<"H", "e", "l", "p">>,
     <<"H", "I", "S", "T", "O", "R", "Y", " ">>,
     <<"\t", "c", "l", "e", "a", "r">>, <<"L", "a", "s", "t">>,
     <<"q", "u", "i", "t", " ", "n", "o", "w">>,
     <<"c", "l", "e", "a", "r", " ", "h", "i", "s", "t", "o", "r", "y">>}

\* Lines in and around the patterns of the percentage, the factorial, the
\* functions and the power.
FunctionLines ==
    {<<"2", "0", "%", " ", "o", "f", " ", "1", "5", "0">>,
     <<"1", "0", "%", " ", " ", "o", "f", " ", "2", ".", "5">>,
     <<"5", "0", "%", " ", "O", "F", " ", "1", "0">>,
     <<"2", "0", " ", "%", " ", "o", "f", " ", "1", "5", "0">>,
     <<"2", "0", "%", " ", "o", "f">>, <<"5", "!">>, <<"0", "!">>,
     <<"1", "0", "!">>, <<"5", "!", " ", "+", " ", "3">>,
     <<"5", ".", "0", "!">>, <<"3", " ", "!">>,
     <<"s", "q", "r", "t", "(", "2", "5", ")">>,
     <<"S", "Q", "R", "T", "(", "1", "6", ")">>,
     <<"s", "q", "r", "t", "(", "2", ")">>,
     <<"s", "q", "r", "t", "(", "0", ")">>,
     <<"s", "q", "r", "t", "(", "2", ".", "5", ")">>,
     <<"s", "q", "r", "t", "(", "-", "1", ")">>,
     <<"s", "q", "r", "t", "(", "-", "4", ")">>,
     <<"s", "q", "r", "t", "(", "-", "2", ".", "5", ")">>,
     <<"s", "q", "r", "t", "(", "-", "0", ")">>,
     <<" ", "S", "Q", "R", "T", "(", "-", "1", "6", ")", " ">>,
     <<"s", "q", "r", "t", "(", "1", "6", ")", " ", "+", " ", "1">>,
     <<"s", "q", "r", "t", "(", " ", "1", "6", " ", ")">>,
     <<"s", "q", "r", "t", "(", "x", ")">>,
     <<"l", "o", "g", "(", "1", "0", "0", ",", " ", "1", "0", ")">>,
     <<"l", "o", "g", "(", "8", ",", "2", ")">>,
     <<"l", "o", "g", "(", "0", ",", " ", "1", "0", ")">>,
     <<"l", "o", "g", "(", "1", "0", ",", " ", "1", ")">>,
     <<"l", "o", "g", "(", "1", "0", ",", " ", "0", ")">>,
     <<"l", "o", "g", "(", "2", ",", " ", "0", ".", "5", ")">>,
     <<"l", "o", "g", "(", "1", "0", "0", " ", ",", " ", "1", "0", ")">>,
     <<"l", "o", "g", "(", "1", "0", "0", ")">>, <<"l", "n", "(", "1", ")">>,
     <<"l", "n", "(", "1", "0", ")">>, <<"l", "n", "(", "0", ")">>,
     <<"l", "n", "(", "2", ".", "5", ")">>, <<"l", "n", "(", "-", "1", ")">>,
     <<"L", "N", "(", "2", ")">>, <<"s", "i", "n", "(", "9", "0", ")">>,
     <<"s", "i", "n", "(", "3", "0", ")">>, <<"c", "o", "s", "(", "0", ")">>,
     <<"c", "o", "s", "(", "1", "8", "0", ")">>,
     <<"t", "a", "n", "(", "4", "5", ")">>, <<"t", "a", "n", "(", "0", ")">>,
     <<"S", "I", "N", "(", "0", ")">>,
     <<"s", "i", "n", "(", "-", "3", "0", ")">>,
     <<"s", "i", "n", "(", "9", "0", ")", " ", "*", " ", "2">>,
     <<"s", "i", "n", " ", "9", "0">>, <<"2", " ", "*", "*", " ", "3">>,
     <<"2", "*", "*", "3">>, <<"2", ".", "5", " ", "*", "*", " ", "2">>,
     <<"0", " ", "*", "*", " ", "0">>, <<"2", " ", "*", "*", " ", "-", "1">>,
     <<"-", "2", " ", "*", "*", " ", "2">>,
     <<"2", " ", "*", "*", " ", "3", " ", "*", "*", " ", "2">>,
     <<"2", " ", "*", "*", " ", "3", " ", "+", " ", "1">>,
     <<"(", "2", ")", " ", "*", "*", " ", "3">>,
     <<"0", " ", "*", "*", " ", "-", "1">>}

\* Numbers as typed, without and with a sign.
Unsigned == {<<"0">>, <<"3">>, <<"5">>, <<"1", "0">>, <<"2", ".", "5">>}
Signed == Unsigned \cup {<<"-", "5">>, <<"-", "2", ".", "5">>, <<"+", "3">>}

\* a op b for every pair of numbers and every operator, with spaces around
\* the operator and without.
BinaryLines ==
    {a \o sp \o <<op>> \o sp \o b :
        a \in Signed, b \in Signed, op \in {"+", "-", "*", "/"}, sp \in {<<>>, <<" ">>}}

\* Lines of several operators, lines that are no expression, lines in
\* which eval divides by zero, and the lines a + b * c and a * b + c for
\* small numbers, in which the two operators bind differently whichever
\* comes first.
OtherLines ==
    {<<"2", " ", "+", " ", "3", " ", "*", " ", "4">>,
     <<"(", "2", " ", "+", " ", "3", ")", " ", "*", " ", "4">>,
     <<"2", " ", "+", " ", "3", " ", "+", " ", "4">>,
     <<"1", "0", " ", "-", " ", "5", " ", "-", " ", "2">>,
     <<"1", " ", "+", " ", "1", "/", "0">>,
     <<"1", "0", " ", "/", " ", "(", "5", " ", "-", " ", "5", ")">>,
     <<"5", " ", "/", "/", " ", "0">>, <<"5", " ", "%", " ", "0">>,
     <<"7", " ", "/", "/", " ", "2">>, <<"7", " ", "%", " ", "2">>, <<"7">>,
     <<"-", "7">>, <<"3", ".", "5">>, <<"(", "5", ")">>, <<>>,
     <<"b", "a", "n", "a", "n", "a", "s">>,
     <<"i", "n", "v", "a", "l", "i", "d", " ", "e", "x", "p", "r", "e", "s", "s", "i", "o", "n">>,
     <<"2", " ", "+">>, <<"+", " ", "2">>, <<"*", " ", "2">>,
     <<"2", " ", "+", " ", "x">>, <<"5", " ", "+", " ", " ", "3", ".">>,
     <<".", "5", " ", "+", " ", ".", "5">>,
     <<"1", "/", "0", " ", "+", " ", "x">>,
     <<"x", " ", "+", " ", "1", "/", "0">>, <<"(", ")">>,
     <<"1", ",", " ", "2">>, <<"a", "b", "s", "(", "-", "1", ")">>,
     <<"5", " ", "/", " ", "0", ".", "0">>, <<"5", "/", "0">>,
     <<" ", " ", "5", " ", "/", " ", " ", "0", " ", " ">>,
     <<"0", "0", "7", " ", "+", " ", "1">>, <<"0", "0", "7">>,
     <<"1", ".", "2", ".", "3", " ", "+", " ", "1">>, <<"2", " ", "3">>,
     <<"5", " ", "!">>,
     <<" ", " ", "2", " ", " ", " ", "+", " ", " ", " ", "3", " ", " ">>}
        \cup {<<a, " ", op[1], " ", b, " ", op[2], " ", c>> :
                a \in {"2", "3", "4"}, b \in {"2", "3", "4"}, c \in {"2", "3", "4"},
                op \in {<<"+", "*">>, <<"*", "+">>}}

Lines == CommandLines \cup FunctionLines \cup BinaryLines \cup OtherLines

\* No line has been given yet.
Unused == cli = NoLine

NextLine ==
    \/ Unused /\ Fresh /\ add(Int_(1), Int_(1)) /\ Direct
    \/ Unused /\ \E input \in Lines : parse_expression(input) /\ UNCHANGED <<pc, stdin, nread, printed, gui>>

SpecLine == Init /\ [][NextLine]_vars

----------------------------------------------------------------------------
(* SpecCommands: lines given one after another to the same CalculatorCLI,  *)
(* as test_special_commands does: the commands, two calculations and a     *)
(* failed one.                                                             *)

NextCommands ==
    \E input \in CommandLines \cup {<<"2", " ", "+", " ", "3">>, <<"3", " ", "*", " ", "4">>,
                                    <<"5", " ", "/", " ", "0">>} :
        /\ parse_expression(input)
        /\ Len(heap'[SelfHistory]) <= MaxHistory
        /\ UNCHANGED <<pc, stdin, nread, printed, gui>>

SpecCommands == Init /\ [][NextCommands]_vars

----------------------------------------------------------------------------
(* SpecRoundTrip: on a new engine, add(a, b), then subtract of b from what *)
(* add returned, for ints a and b.                                         *)

\* Largest absolute value of a and b.
MaxOperand == 5

NextRoundTrip ==
    \/ \E a \in -MaxOperand .. MaxOperand, b \in -MaxOperand .. MaxOperand :
          Fresh /\ add(Int_(a), Int_(b)) /\ Direct
    \/ ret.op = "add" /\ subtract(ret.value, ret.args[2]) /\ Direct

SpecRoundTrip == Init /\ [][NextRoundTrip]_vars

----------------------------------------------------------------------------
(* SpecHistory: the engine is called until its history is longer than the  *)
(* ten entries the history command shows, then the command is given, as    *)
(* test_history_command does after two calls.                              *)

\* Longest history built before the command.
MaxEntries == 11

\* The engine is called with the number of its entries as first operand, so
\* that no two entries are the same text.
NextHistory ==
    \/ /\ Unused /\ Len(History) < MaxEntries
       /\ add(Int_(Len(History)), Int_(2))
       /\ UNCHANGED <<running, cli, pc, stdin, nread, printed, gui>>
    \/ /\ Unused /\ Len(History) < MaxEntries
       /\ multiply(Int_(Len(History)), Int_(4))
       /\ UNCHANGED <<running, cli, pc, stdin, nread, printed, gui>>
    \/ /\ Unused
       /\ parse_expression(<<"h", "i", "s", "t", "o", "r", "y">>)
       /\ UNCHANGED <<pc, stdin, nread, printed, gui>>

SpecHistory == Init /\ [][NextHistory]_vars

----------------------------------------------------------------------------
(* SpecLoop: run_interactive on an input stream.  An item of the stream is *)
(* a line or an interrupt from the keyboard; input() raises EOFError at    *)
(* the end of the stream.  The banner display_welcome prints and the help  *)
(* text display_help prints are not part of printed.                       *)

\* Ctrl-C at the prompt: input() raises KeyboardInterrupt.
Interrupt == <<"^C">>

\* Longest input stream.
MaxStream == 3

\* run_interactive is entered on a new CalculatorCLI and has shown its
\* banner; the input stream is any sequence of up to MaxStream items, each
\* an interrupt or one of eight lines typed at the prompt.
InitLoop ==
    /\ CalculatorInit
    /\ ret = NoCall
    /\ held = NoList
    /\ running = TRUE
    /\ cli = NoLine
    /\ pc = "while"
    /\ stdin \in UNION {[1 .. n ->
                            {<<"2", " ", "+", " ", "3">>, <<"5", " ", "/", " ", "0">>, <<"7">>,
                             <<"l", "a", "s", "t">>, <<"h", "e", "l", "p">>, <<" ">>,
                             <<"q", "u", "i", "t">>, <<"E", "X", "I", "T">>, Interrupt}] :
                         n \in 0 .. MaxStream}
    /\ nread = 0
    /\ printed = <<>>
    /\ gui = NoWindow

\* The test of the loop with the running flag taken for true.
while_true ==
    /\ pc = "while"
    /\ pc' = "input"
    /\ UNCHANGED <<engine, running, cli, stdin, nread, printed, gui>>

\* while self.running:
while_running ==
    /\ pc = "while"
    /\ pc' = IF running THEN "input" ELSE "returned"
    /\ UNCHANGED <<engine, running, cli, stdin, nread, printed, gui>>

\* input() without the two except clauses of the loop: the exception
\* leaves run_interactive.
input_unhandled ==
    /\ pc = "input"
    /\ IF nread = Len(stdin) \/ stdin[nread + 1] = Interrupt
       THEN pc' = "escaped" /\ UNCHANGED nread
       ELSE /\ nread' = nread + 1
            /\ pc' = IF Strip(stdin[nread + 1]) = <<>> THEN "while" ELSE "parse"
    /\ UNCHANGED <<engine, running, cli, stdin, printed, gui>>

\* user_input = input(...).strip(); if not user_input: continue -- and the
\* handlers of EOFError and KeyboardInterrupt, which print the goodbye text
\* after a line feed and break.
input_line ==
    /\ pc = "input"
    /\ IF nread = Len(stdin)
       THEN /\ printed' = Append(printed, <<"\n">> \o GoodbyeText)
            /\ pc' = "returned"
            /\ UNCHANGED nread
       ELSE /\ nread' = nread + 1
            /\ IF stdin[nread + 1] = Interrupt
               THEN printed' = Append(printed, <<"\n">> \o GoodbyeText) /\ pc' = "returned"
               ELSE /\ printed' = printed
                    /\ pc' = IF Strip(stdin[nread + 1]) = <<>> THEN "while" ELSE "parse"
    /\ UNCHANGED <<engine, running, cli, stdin, gui>>

\* result = self.parse_expression(user_input), user_input being the
\* stripped line input() returned last; an exception it raised would leave
\* run_interactive, whose handlers name two other exceptions.
interpret_line ==
    /\ pc = "parse"
    /\ parse_expression(Strip(stdin[nread]))
    /\ pc' = IF cli'.raised = "None" THEN "print" ELSE "escaped"
    /\ UNCHANGED <<stdin, nread, printed, gui>>

\* if result: print(result)
print_result ==
    /\ pc = "print"
    /\ printed' = IF cli.response # <<>> THEN Append(printed, cli.response) ELSE printed
    /\ pc' = "while"
    /\ UNCHANGED <<engine, running, cli, stdin, nread, gui>>

NextLoop ==
    \/ while_running
    \/ input_line
    \/ interpret_line
    \/ print_result

SpecLoop == InitLoop /\ [][NextLoop]_vars

\* run_interactive leaves the position it stands at: the Python
\* interpreter executes the next statement of a function that has not
\* returned.
Proceed ==
    /\ pc \notin {"returned", "escaped"}
    /\ pc' \in {"while", "input", "parse", "print", "returned", "escaped"} \ {pc}

FairLoop == SpecLoop /\ WF_pc(Proceed)

----------------------------------------------------------------------------
(* SpecSession: run_interactive on a stream of calculations, failed        *)
(* calculations and the commands clear, last and history.                  *)

\* run_interactive is entered on a new CalculatorCLI; the input stream is
\* any sequence of up to MaxStream of seven lines.
InitSession ==
    /\ CalculatorInit
    /\ ret = NoCall
    /\ held = NoList
    /\ running = TRUE
    /\ cli = NoLine
    /\ pc = "while"
    /\ stdin \in UNION {[1 .. n ->
                            {<<"2", " ", "+", " ", "3">>, <<"3", " ", "*", " ", "4">>,
                             <<"5", " ", "/", " ", "0">>, <<"c", "l", "e", "a", "r">>,
                             <<"C", "L", "E", "A", "R", " ">>, <<"l", "a", "s", "t">>,
                             <<"h", "i", "s", "t", "o", "r", "y">>}] :
                         n \in 0 .. MaxStream}
    /\ nread = 0
    /\ printed = <<>>
    /\ gui = NoWindow

SpecSession == InitSession /\ [][NextLoop]_vars

----------------------------------------------------------------------------
(* The window (src/calculator_gui.py).  tkinter runs one handler to its    *)
(* end before it takes the next event.  gui.error is the message of the    *)
(* messages of the error boxes the last handler showed; ret is the         *)
(* recording operation the last handler called on the engine, NoCall when  *)
(* it called none.  pending_operation is the operator as a string, "None"  *)
(* when there is none.  The attribute last_operation is never read and is  *)
(* left out, as is the history dialog.                                     *)

\* Longest entry typed with the digit and point buttons.
MaxInput == 2
\* Number of events (button presses) the model follows.
MaxKeys == 4
\* Largest magnitude of an operand the window calculates with: the results
\* of larger ones pass the 32 bits of the model's integers.
MaxMagnitude == 100

\* create_variables: the attributes of a new window.
create_variables ==
    [current_input |-> <<>>, pending_operation |-> "None", pending_value |-> None,
     just_calculated |-> FALSE, display |-> <<"0">>, error |-> <<>>]

\* f"{float_value:.6e}" of a float that is not zero.
Scientific(x) ==
    LET m == Abs(GridV(x))
        n == Len(NatStr(m))
        q == IF n > 7 THEN RoundDiv(m, 10 ^ (n - 7)) ELSE m * 10 ^ (7 - n)
        carry == q = 10 ^ 7
        sig == NatStr(IF carry THEN 10 ^ 6 ELSE q)
        e == (n - 1 - FloatDigits) + (IF carry THEN 1 ELSE 0)
    IN  (IF GridV(x) < 0 THEN <<"-">> ELSE <<>>) \o <<sig[1], ".">> \o SubSeq(sig, 2, 7)
            \o <<"e", IF e < 0 THEN "-" ELSE "+">> \o PadStr(Abs(e), 2)

\* update_display(value): the text the display shows.  A text of more than
\* 20 characters is shortened.
update_display(value) ==
    IF Len(value) > 20
    THEN LET float_value == ParseFloat(value)
         IN  IF float_value.raised # "None" THEN SubSeq(value, 1, 20)
             ELSE IF \/ Abs(GridV(float_value.value)) >= (10 ^ 15) * FS
                     \/ /\ Abs(GridV(float_value.value)) * (10 ^ 4) < FS
                        /\ ~IsZero(float_value.value)
             THEN Scientific(float_value.value)
             ELSE SubSeq(Str(float_value.value), 1, 20)
    ELSE value

\* What clear() makes of the window g.
Cleared(g) ==
    [g EXCEPT !.current_input = <<>>, !.pending_operation = "None", !.pending_value = None,
              !.just_calculated = FALSE, !.display = update_display(<<"0">>)]

\* show_error(message): "Error" on the display, the error box, then clear().
show_error(g, message) ==
    [Cleared([g EXCEPT !.display = update_display(<<"E", "r", "r", "o", "r">>)])
        EXCEPT !.error = Append(g.error, message)]

\* f"Error: {str(e)}"
ErrorText(msg) == <<"E", "r", "r", "o", "r", ":", " ">> \o msg

\* str(e) of the ValueError float(text) raises.
FloatMessage(text) ==
    <<"c", "o", "u", "l", "d", " ", "n", "o", "t", " ", "c", "o", "n", "v", "e", "r", "t",
      " ", "s", "t", "r", "i", "n", "g", " ", "t", "o", " ", "f", "l", "o", "a", "t", ":",
      " ", "'">> \o text \o <<"'">>

\* int(x) of a float: the fraction is cut off.
IntOfFloat(x) ==
    Int_(IF GridV(x) >= 0 THEN GridV(x) \div FS ELSE -((-GridV(x)) \div FS))

\* The window as a handler finds it: no error box is open.
Begin == [gui EXCEPT !.error = <<>>]

\* A handler that calls no recording operation of the engine.
Quiet ==
    /\ ret' = NoCall
    /\ UNCHANGED <<heap, last_result, held>>

\* The frame of a handler: the window has taken one more event, and the
\* interpreter's variables stay as they are.  (The model follows MaxKeys
\* events.)
Window ==
    /\ nread < MaxKeys
    /\ nread' = nread + 1
    /\ UNCHANGED <<running, cli, pc, stdin, printed>>

\* The model stops recording at MaxHistory entries.
Recorded == Len(heap'[SelfHistory]) <= MaxHistory

\* The operand is within the width of the model.
Small(x) == Abs(GridV(x)) <= MaxMagnitude * FS

\* The digit buttons of the model.
DigitKeys == {"0", "2", "5"}

\* number(digit)
gui_number(digit) ==
    LET fresh == IF gui.just_calculated THEN <<>> ELSE gui.current_input
        input == IF fresh = <<"0">> THEN <<digit>> ELSE Append(fresh, digit)
    IN  /\ Window
        /\ Len(SelectSeq(input, IsDigit)) <= MaxInput
        /\ gui' = [Begin EXCEPT !.just_calculated = FALSE, !.current_input = input,
                                !.display = update_display(input)]
        /\ Quiet

\* decimal()
decimal ==
    LET fresh == IF gui.just_calculated THEN <<"0">> ELSE gui.current_input
        input == (IF fresh = <<>> THEN <<"0">> ELSE fresh) \o <<".">>
    IN  /\ Window
        /\ gui' = IF Contains(fresh, <<".">>) THEN [Begin EXCEPT !.just_calculated = FALSE,
                                                              !.current_input = fresh]
                  ELSE [Begin EXCEPT !.just_calculated = FALSE, !.current_input = input,
                                     !.display = update_display(input)]
        /\ Quiet

\* The outcome of equals() before it calls the engine: "nothing" when no
\* operation is pending, "ValueError" when the entry is no float, "zero"
\* when it raises for a zero divisor itself, "call" otherwise.
EqualsCase(g) ==
    IF g.pending_operation = "None" \/ g.pending_value = None THEN "nothing"
    ELSE IF g.current_input # <<>> /\ ParseFloat(g.current_input).raised # "None"
    THEN "ValueError"
    ELSE IF /\ g.pending_operation = "/"
            /\ IsZero(IF g.current_input # <<>> THEN ParseFloat(g.current_input).value
                      ELSE g.pending_value)
    THEN "zero"
    ELSE "call"

\* The call equals() makes on the engine for the pending operation.
EqualsCall(g) ==
    LET current_value == IF g.current_input # <<>> THEN ParseFloat(g.current_input).value
                         ELSE g.pending_value
    IN  IF EqualsCase(g) # "call" THEN Quiet
        ELSE /\ Small(g.pending_value) /\ Small(current_value)
             /\ CASE g.pending_operation = "+" -> add(g.pending_value, current_value)
                  [] g.pending_operation = "-" -> subtract(g.pending_value, current_value)
                  [] g.pending_operation = "*" -> multiply(g.pending_value, current_value)
                  [] g.pending_operation = "/" -> divide(g.pending_value, current_value)
                  [] g.pending_operation = "**" ->
                        /\ Abs(GridV(g.pending_value)) <= 10 * FS
                        /\ Abs(GridV(current_value)) <= 3 * FS
                        /\ GridV(current_value) % FS = 0
                        /\ power(g.pending_value, current_value)

\* The window after a handler has shown a result.
Shown(g, result) ==
    [g EXCEPT !.display = update_display(Str(result)), !.current_input = Str(result),
              !.just_calculated = TRUE]

\* The window after equals(), call being the call it made on the engine.
EqualsDone(g, call) ==
    CASE EqualsCase(g) = "nothing" -> g
      [] EqualsCase(g) = "ValueError" -> show_error(g, ErrorText(FloatMessage(g.current_input)))
      [] EqualsCase(g) = "zero" -> show_error(g, MsgDivide)
      [] EqualsCase(g) = "call" ->
            IF call.raised = "None"
            THEN [Shown(g, call.value) EXCEPT !.pending_operation = "None",
                                              !.pending_value = None]
            ELSE IF call.raised = "ZeroDivisionError" THEN show_error(g, call.msg)
            ELSE show_error(g, ErrorText(call.msg))

\* equals()
equals ==
    /\ Window
    /\ EqualsCall(gui)
    /\ gui' = EqualsDone(Begin, ret')
    /\ Recorded

\* operation(op): a second operator first evaluates the pending operation
\* (self.equals()), then reads the engine's last result.
operation(op) ==
    /\ Window
    /\ IF gui.current_input = <<>> THEN Quiet /\ gui' = Begin
       ELSE IF ParseFloat(gui.current_input).raised # "None"
       THEN /\ Quiet
            /\ gui' = show_error(Begin, <<"I", "n", "v", "a", "l", "i", "d", " ", "n", "u",
                                          "m", "b", "e", "r">>)
       ELSE IF gui.pending_operation # "None" /\ ~gui.just_calculated
       THEN /\ EqualsCall(gui)
            /\ gui' = [EqualsDone(Begin, ret') EXCEPT !.pending_value = last_result',
                                                      !.pending_operation = op,
                                                      !.current_input = <<>>,
                                                      !.just_calculated = FALSE]
       ELSE /\ Quiet
            /\ gui' = [Begin EXCEPT !.pending_value = ParseFloat(gui.current_input).value,
                                    !.pending_operation = op,
                                    !.current_input = <<>>,
                                    !.just_calculated = FALSE]
    /\ Recorded

\* clear()
clear ==
    /\ Window
    /\ gui' = Cleared(Begin)
    /\ Quiet

\* A clear_entry() that resets as clear() does.
clear_entry_resets ==
    /\ Window
    /\ gui' = Cleared(Begin)
    /\ Quiet

\* clear_entry()
clear_entry ==
    /\ Window
    /\ gui' = [Begin EXCEPT !.current_input = <<>>, !.display = update_display(<<"0">>)]
    /\ Quiet

\* backspace()
backspace ==
    LET input == SubSeq(gui.current_input, 1, Len(gui.current_input) - 1)
    IN  /\ Window
        /\ gui' = IF gui.current_input # <<>> /\ ~gui.just_calculated
                  THEN [Begin EXCEPT !.current_input = input,
                                     !.display = update_display(IF input = <<>> THEN <<"0">>
                                                                ELSE input)]
                  ELSE Begin
        /\ Quiet

\* toggle_sign()
toggle_sign ==
    LET input == IF Head(gui.current_input) = "-" THEN Tail(gui.current_input)
                 ELSE <<"-">> \o gui.current_input
    IN  /\ Window
        /\ gui' = IF gui.current_input # <<>> /\ gui.current_input # <<"0">>
                  THEN [Begin EXCEPT !.current_input = input,
                                     !.display = update_display(input)]
                  ELSE Begin
        /\ Quiet

\* The window after a function button, call being the call its handler
\* made: the result, or the error box with the message of the exception
\* after the prefix.
FunctionDone(g, call, prefix) ==
    IF call.raised = "None" THEN Shown(g, call.value)
    ELSE show_error(g, prefix \o call.msg)

\* The entry is a text float() refuses: the function button shows the error.
Refused(prefix) ==
    /\ gui.current_input # <<>>
    /\ ParseFloat(gui.current_input).raised # "None"
    /\ gui' = show_error(Begin, prefix \o FloatMessage(gui.current_input))
    /\ Quiet

\* The entry is a float the function button calculates with.
Entered ==
    /\ gui.current_input # <<>>
    /\ ParseFloat(gui.current_input).raised = "None"
    /\ Small(ParseFloat(gui.current_input).value)

\* square_root(): the root of 0 when nothing is entered.
gui_square_root ==
    /\ Window
    /\ \/ Refused(<<>>)
       \/ /\ Entered
          /\ square_root(ParseFloat(gui.current_input).value)
          /\ gui' = FunctionDone(Begin, ret', <<>>)
       \/ /\ gui.current_input = <<>>
          /\ square_root(Int_(0))
          /\ gui' = FunctionDone(Begin, ret', <<>>)
    /\ Recorded

\* A square() that multiplies by itself without the engine.
square_by_hand ==
    /\ Window
    /\ \/ Refused(ErrorText(<<>>))
       \/ /\ Entered
          /\ Quiet
          /\ gui' = Shown(Begin, PyMul(ParseFloat(gui.current_input).value,
                                     ParseFloat(gui.current_input).value))
       \/ gui.current_input = <<>> /\ Quiet /\ gui' = Begin
    /\ Recorded

\* square()
square ==
    /\ Window
    /\ \/ Refused(ErrorText(<<>>))
       \/ /\ Entered
          /\ power(ParseFloat(gui.current_input).value, Int_(2))
          /\ gui' = FunctionDone(Begin, ret', ErrorText(<<>>))
       \/ gui.current_input = <<>> /\ Quiet /\ gui' = Begin
    /\ Recorded

\* percentage(): value / 100, computed by the window itself.
gui_percentage ==
    /\ Window
    /\ \/ Refused(ErrorText(<<>>))
       \/ /\ Entered
          /\ Quiet
          /\ gui' = Shown(Begin, PyTrueDiv(ParseFloat(gui.current_input).value, Int_(100)))
       \/ gui.current_input = <<>> /\ Quiet /\ gui' = Begin
    /\ Recorded

\* factorial(): of int(float(self.current_input)).
gui_factorial ==
    /\ Window
    /\ \/ Refused(ErrorText(<<>>))
       \/ /\ Entered
          /\ IntOfFloat(ParseFloat(gui.current_input).value).v <= 10
          /\ factorial(IntOfFloat(ParseFloat(gui.current_input).value))
          /\ gui' = FunctionDone(Begin, ret', ErrorText(<<>>))
       \/ gui.current_input = <<>> /\ Quiet /\ gui' = Begin
    /\ Recorded

\* sine(), in degrees
gui_sine ==
    /\ Window
    /\ \/ Refused(ErrorText(<<>>))
       \/ /\ Entered
          /\ sine(ParseFloat(gui.current_input).value, TRUE)
          /\ gui' = FunctionDone(Begin, ret', ErrorText(<<>>))
       \/ gui.current_input = <<>> /\ Quiet /\ gui' = Begin
    /\ Recorded

\* cosine(), in degrees
gui_cosine ==
    /\ Window
    /\ \/ Refused(ErrorText(<<>>))
       \/ /\ Entered
          /\ cosine(ParseFloat(gui.current_input).value, TRUE)
          /\ gui' = FunctionDone(Begin, ret', ErrorText(<<>>))
       \/ gui.current_input = <<>> /\ Quiet /\ gui' = Begin
    /\ Recorded

\* tangent(), in degrees
gui_tangent ==
    /\ Window
    /\ \/ Refused(ErrorText(<<>>))
       \/ /\ Entered
          /\ tangent(ParseFloat(gui.current_input).value, TRUE)
          /\ gui' = FunctionDone(Begin, ret', ErrorText(<<>>))
       \/ gui.current_input = <<>> /\ Quiet /\ gui' = Begin
    /\ Recorded

----------------------------------------------------------------------------
(* SpecGui: the buttons of a new window, pressed in any order *)

\* CalculatorGUI.__init__
InitGui ==
    /\ CalculatorInit
    /\ ret = NoCall
    /\ held = NoList
    /\ running = TRUE
    /\ cli = NoLine
    /\ pc = "idle"
    /\ stdin = <<>>
    /\ nread = 0
    /\ printed = <<>>
    /\ gui = create_variables

NextGui ==
    \/ \E digit \in DigitKeys : gui_number(digit)
    \/ decimal
    \/ \E op \in {"+", "-", "*", "/", "**"} : operation(op)
    \/ equals
    \/ clear
    \/ clear_entry
    \/ backspace
    \/ toggle_sign
    \/ gui_square_root
    \/ square
    \/ gui_percentage
    \/ gui_factorial
    \/ gui_sine
    \/ gui_cosine
    \/ gui_tangent

SpecGui == InitGui /\ [][NextGui]_vars

----------------------------------------------------------------------------
(* Properties of the engine *)

IsPrefix(s, t) == Len(s) <= Len(t) /\ SubSeq(t, 1, Len(s)) = s
EndsWith(t, s) == Len(s) <= Len(t) /\ SubSeq(t, Len(t) - Len(s) + 1, Len(t)) = s

\* The step was a call of a recording operation that returned.
Succeeded == ret'.op \in EngineOps /\ ret'.raised = "None"

\* C1: every engine operation that returns has appended exactly one entry to
\* history (an entry that ends in " = <result>"), has set last_result to its
\* result and has returned that result.
C1_SuccessRecords ==
    [][Succeeded =>
          /\ Len(History') = Len(History) + 1
          /\ IsPrefix(History, History')
          /\ EndsWith(History'[Len(History')], <<" ", "=", " ">> \o Str(ret'.value))
          /\ last_result' = ret'.value]_vars

\* C1 witness: add(2, 3) returned 5 on an engine that already held an entry.
C1_Witness ==
    /\ ret.op = "add" /\ ret.raised = "None" /\ ret.value = Int_(5)
    /\ Len(History) = 2
    /\ last_result = Int_(5)

\* C2: history is append-only: a step keeps every entry it found, in order,
\* and adds at its end, unless the step is clear_history, which empties it.
C2_AppendOnly ==
    [][\/ IsPrefix(History, History')
       \/ ret'.op = "clear_history" /\ History' = <<>>]_vars

\* C2 witness: two entries recorded one after the other, in call order.
C2_Witness ==
    /\ Len(History) = 2
    /\ History[1] = BinaryEntry(Int_(2), "+", Int_(3), Int_(5))
    /\ History[2] = BinaryEntry(Int_(2), "-", Int_(3), Int_(-1))

\* C4: right after clear_history, whatever was recorded before it,
\* get_history returns the empty sequence.
C4_ClearedIsEmpty == ret.op = "clear_history" => HistoryCopy = <<>>

\* C4 witness: clear_history has run on an engine that had recorded
\* add(2, 3) = 5 last.
C4_Witness == ret.op = "clear_history" /\ last_result = Int_(5) /\ HistoryCopy = <<>>

----------------------------------------------------------------------------
(* Properties of single operations (SpecCall) *)

\* q is the float nearest to a / b.
IsQuotient(q, a, b) ==
    /\ ~q.int
    /\ 2 * Abs(q.v * GridV(b) - GridV(a) * FS) <= Abs(GridV(b))

\* C5: divide(a, b) raises ZeroDivisionError exactly when b == 0; for every
\* other b it returns the quotient a / b.
C5_DivideByZeroIff ==
    ret.op = "divide" =>
        LET a == ret.args[1]
            b == ret.args[2]
        IN  /\ (ret.raised = "ZeroDivisionError") <=> NumEq(b, Int_(0))
            /\ ~NumEq(b, Int_(0)) => ret.raised = "None" /\ IsQuotient(ret.value, a, b)

\* C5 witness: a division by a non-zero float that does not come out even,
\* 1 / -2.5 = -0.4.
C5_Witness ==
    /\ ret.op = "divide" /\ ret.args = <<Int_(1), Flt(-2, -5)>>
    /\ ret.raised = "None" /\ ret.value = Flt(0, -4)

\* C6: square_root(x) raises ValueError for every x < 0; for every x >= 0 it
\* returns a float y >= 0 whose square is x to within the rounding of y (y is
\* the float nearest to the root), and exactly x when x is a perfect square.
C6_SquareRoot ==
    ret.op = "square_root" =>
        LET x == ret.args[1]
            y == ret.value
        IN  IF GridV(x) < 0 THEN ret.raised = "ValueError"
            ELSE /\ ret.raised = "None"
                 /\ ~y.int /\ y.v >= 0
                 /\ Abs(y.v * y.v - GridV(x) * FS) <= y.v
                 /\ \A k \in 0 .. 5 : NumEq(x, Int_(k * k)) => y = Flt(k, 0)

\* C6 witness: the root of 2, which no float squares back to exactly.
C6_Witness ==
    /\ ret.op = "square_root" /\ ret.args = <<Int_(2)>> /\ ret.raised = "None"
    /\ ret.value.v * ret.value.v # 2 * FS * FS

\* n! as the product 1 * 2 * ... * n.
Product[n \in 0 .. 12] == IF n = 0 THEN 1 ELSE n * Product[n - 1]

\* C7: factorial(n) raises ValueError for every n that is negative or not an
\* int; for every int n >= 0 it returns n!, with 0! = 1 and n! = n * (n-1)!.
C7_Factorial ==
    ret.op = "factorial" =>
        LET n == ret.args[1]
        IN  IF ~n.int \/ GridV(n) < 0 THEN ret.raised = "ValueError"
            ELSE /\ ret.raised = "None"
                 /\ ret.value.int
                 /\ n.v = 0 => ret.value.v = 1
                 /\ n.v > 0 => ret.value.v = n.v * Product[n.v - 1]

\* C7 witness: factorial(5) returned 120.
C7_Witness ==
    ret.op = "factorial" /\ ret.args = <<Int_(5)>> /\ ret.value = Int_(120)

\* C8: logarithm(number, base) raises ValueError whenever number <= 0 or
\* base <= 0 or base == 1, and returns for every other number and base; the
\* base is math.e when the caller gives none.
C8_LogarithmDomain ==
    ret.op = "logarithm" =>
        LET number == ret.args[1]
            base   == ret.args[2]
            bad    == GridV(number) <= 0 \/ GridV(base) <= 0 \/ GridV(base) = FS
        IN  /\ bad => ret.raised = "ValueError"
            /\ ~bad => ret.raised = "None" /\ ~ret.value.int

\* C8 witness: a logarithm to a base below 1 returned: log(4, 0.5) = -2.
C8_Witness ==
    /\ ret.op = "logarithm" /\ ret.args = <<Int_(4), Flt(0, 5)>>
    /\ ret.raised = "None" /\ ret.value = Flt(-2, 0)

----------------------------------------------------------------------------
(* Properties of get_history (SpecCopy) *)

Range(q) == {q[i] : i \in 1 .. Len(q)}

\* C3: appending to a list that get_history returned never changes the
\* engine's history, and every get_history call returns the engine's history
\* as the operations recorded it, without any entry a caller appended.
C3_DefensiveCopy ==
    [][/\ ret'.op = "list.append" => History' = History
       /\ ret'.op = "get_history" =>
             /\ heap'[held'] = History
             /\ FakeEntry \notin Range(heap'[held'])]_vars

\* C3 witness: the caller has appended to the list it holds, which is now one
\* entry longer than the engine's history; the engine still has its one entry.
C3_Witness ==
    /\ ret.op = "list.append"
    /\ held # NoList
    /\ Len(History) = 1
    /\ heap[held] = Append(History, FakeEntry)

----------------------------------------------------------------------------
(* Properties of the interpreter (SpecLine) *)

\* The lines "a / 0", for every number a of the model, with and without
\* spaces around the operator.
DivideByZeroLines ==
    {a \o sp \o <<"/">> \o sp \o <<"0">> : a \in Signed, sp \in {<<>>, <<" ">>}}

\* C9: parse_expression never raises: it returns a text for every line.
\* When the engine call of its branch raised an exception, the text is one
\* line that starts with the error mark; and a line "a / 0" is answered
\* with the cannot-divide-by-zero line, for every number a.
C9_NeverRaises ==
    cli # NoLine =>
        /\ cli.raised = "None"
        /\ ret.raised # "None" =>
              /\ IsPrefix(ErrorPrefix, cli.response)
              /\ ~Contains(cli.response, <<"\n">>)
        /\ cli.line \in DivideByZeroLines => cli.response = DivideByZeroText

\* C9 witness: "-5 / 0" reached divide, which raised, and the interpreter
\* returned the error line and left the engine as it was.
C9_Witness ==
    /\ cli.line = <<"-", "5", " ", "/", " ", "0">>
    /\ ret.op = "divide" /\ ret.raised = "ZeroDivisionError"
    /\ cli.raised = "None" /\ cli.response = DivideByZeroText
    /\ History = <<>> /\ last_result = Int_(0)

\* The step was a parse_expression that returned a success response.
SuccessResponse ==
    /\ cli' # cli
    /\ cli'.raised = "None"
    /\ IsPrefix(OkMark, cli'.response)

\* C10: every parse_expression that returns a success response has appended
\* exactly one entry to the engine's history and has set last_result to the
\* number its response reports.
C10_RoundTrip ==
    [][SuccessResponse =>
          /\ Len(History') = Len(History) + 1
          /\ IsPrefix(History, History')
          /\ EndsWith(cli'.response, <<" ", "=", " ">> \o Str(last_result'))]_vars

----------------------------------------------------------------------------
(* Properties of the dispatch *)

\* The line parse_expression matches its patterns against.
Normal(line) == Lower(Strip(line))

\* The number of times the character c occurs in s.
Occurrences(s, c) == Cardinality({i \in 1 .. Len(s) : s[i] = c})

\* The text before and the text after the i-th character of s.
Around(s, i) == <<SubSeq(s, 1, i - 1), SubSeq(s, i + 1, Len(s))>>

\* Both texts are floats.
BothFloats(parts) ==
    ParseFloat(parts[1]).raised = "None" /\ ParseFloat(parts[2]).raised = "None"

\* The symbol occurs once in the line, with a float on each side.
OnceBetweenFloats(e, symbol) ==
    /\ Occurrences(e, symbol) = 1
    /\ BothFloats(Around(e, CHOOSE i \in 1 .. Len(e) : e[i] = symbol))

\* The categories of dispatch, in the order of the specification, and the
\* lines the pattern of each matches.
Categories ==
    <<"command", "percentage", "factorial", "sqrt", "log", "ln", "trig", "power",
      "operator", "fallback">>
Matches(category, e) ==
    CASE category = "command" ->
            e \in {<<"q", "u", "i", "t">>, <<"e", "x", "i", "t">>, <<"h", "e", "l", "p">>,
                   <<"h", "i", "s", "t", "o", "r", "y">>, <<"c", "l", "e", "a", "r">>,
                   <<"l", "a", "s", "t">>}
      [] category = "percentage" -> MatchPercentage(e).ok
      [] category = "factorial" -> MatchFactorial(e).ok
      [] category = "sqrt" -> MatchFunction(<<"s", "q", "r", "t">>, e).ok
      [] category = "log" -> MatchLog(e).ok
      [] category = "ln" -> MatchFunction(<<"l", "n">>, e).ok
      [] category = "trig" ->
            \E name \in {<<"s", "i", "n">>, <<"c", "o", "s">>, <<"t", "a", "n">>} :
                MatchFunction(name, e).ok
      [] category = "power" -> MatchPower(e).ok
      [] category = "operator" ->
            \E k \in 1 .. Len(operators) : OnceBetweenFloats(e, operators[k])
      [] category = "fallback" -> TRUE
FirstMatch(e) ==
    Categories[CHOOSE i \in 1 .. Len(Categories) :
                  /\ Matches(Categories[i], e)
                  /\ \A j \in 1 .. (i - 1) : ~Matches(Categories[j], e)]

\* The category whose branch the last parse_expression took, as the call it
\* made on the engine and its response show it.
Taken ==
    CASE ret.op \in {"get_history", "clear_history", "get_last_result"} -> "command"
      [] ret.op = "none" ->
            IF cli.response \in {GoodbyeText, <<>>} THEN "command" ELSE "fallback"
      [] ret.op = "percentage" -> "percentage"
      [] ret.op = "factorial" -> "factorial"
      [] ret.op = "square_root" -> "sqrt"
      [] ret.op = "logarithm" -> IF ret.args[2] = MathE THEN "ln" ELSE "log"
      [] ret.op \in {"sine", "cosine", "tangent"} -> "trig"
      [] ret.op = "power" -> "power"
      [] ret.op \in {"add", "subtract", "multiply", "divide"} -> "operator"

\* C11: dispatch is first-match-wins in the order command, percentage,
\* factorial, sqrt, log, ln, trig, power, single operator, fallback: the
\* branch parse_expression takes is the branch of the first category whose
\* pattern matches the line; and when the engine call of that branch fails,
\* the response is the error line of that failure: no later category
\* answers the line.
C11_FirstMatchWins ==
    cli # NoLine =>
        /\ Taken = FirstMatch(Normal(cli.line))
        /\ ret.raised # "None" =>
              cli.response = IF ret.raised = "ZeroDivisionError" THEN DivideByZeroText
                             ELSE ErrorPrefix \o ret.msg

\* C11 witness: "log(0, 10)" matched the two-argument log pattern, the
\* engine refused the number, and the answer is the engine's error, not the
\* invalid-expression answer of the fallback.
C11_Witness ==
    /\ cli.line = <<"l", "o", "g", "(", "0", ",", " ", "1", "0", ")">>
    /\ FirstMatch(Normal(cli.line)) = "log"
    /\ ret.op = "logarithm" /\ ret.raised = "ValueError"
    /\ cli.response = ErrorPrefix \o MsgLogNumber

----------------------------------------------------------------------------
(* Properties of the interactive loop *)

\* The line is the quit or the exit command.
IsQuit(line) == Normal(line) \in {<<"q", "u", "i", "t">>, <<"e", "x", "i", "t">>}

\* The steps of the loop: the test of the running flag, read line,
\* interpret, print result.
LoopTransitions ==
    {<<"while", "input">>, <<"while", "returned">>, <<"input", "parse">>,
     <<"input", "while">>, <<"input", "returned">>, <<"parse", "print">>,
     <<"print", "while">>}

\* C12: interpreting quit or exit sets running to false, and once running is
\* false the loop reads no further item of its input and interprets no
\* further line; every step of the loop is one of read line, interpret,
\* print result and the test of the flag, the loop goes on to read only
\* while running is true, and it interprets only a line its input delivered.
C12_QuitStopsLoop ==
    [][/\ <<pc, pc'>> \in LoopTransitions
       /\ (pc = "parse" /\ IsQuit(stdin[nread])) => ~running'
       /\ ~running => nread' = nread /\ cli' = cli /\ engine' = engine /\ ~running'
       /\ pc' = "input" => running
       /\ pc' = "parse" => nread < Len(stdin) /\ nread' = nread + 1]_vars

\* C12 witness: the loop returned after "2 + 3" and "quit", with a third
\* line left unread.
C12_Witness ==
    /\ pc = "returned" /\ ~running
    /\ Len(stdin) = 3 /\ nread = 2
    /\ stdin[1] = <<"2", " ", "+", " ", "3">> /\ stdin[2] = <<"q", "u", "i", "t">>
    /\ printed = <<OkMark \o <<"2", ".", "0", " ", "+", " ", "3", ".", "0", " ", "=", " ",
                                "5", ".", "0">>, GoodbyeText>>

\* The item of the stream that ends the loop: the first interrupt, quit or
\* exit, and the end of the stream when there is none.
LastItem(stream) ==
    IF \E i \in 1 .. Len(stream) : stream[i] = Interrupt \/ IsQuit(stream[i])
    THEN CHOOSE i \in 1 .. Len(stream) :
            /\ stream[i] = Interrupt \/ IsQuit(stream[i])
            /\ \A j \in 1 .. (i - 1) : ~(stream[j] = Interrupt \/ IsQuit(stream[j]))
    ELSE Len(stream)

\* The lines among the first n items of the stream that get an answer
\* printed: every line that is not blank and is not the help command.
Answered(stream, n) ==
    {i \in 1 .. n : /\ stream[i] # Interrupt
                    /\ Strip(stream[i]) # <<>>
                    /\ Normal(stream[i]) # <<"h", "e", "l", "p">>}

\* run_interactive has returned, and it has read the stream up to the item
\* that ended it and printed one answer for every line before that item.
ReturnedComplete ==
    /\ pc = "returned"
    /\ nread = LastItem(stdin)
    /\ Len(printed) = Cardinality(Answered(stdin, nread))
                        + (IF running THEN 1 ELSE 0)

\* C13: the interactive loop terminates: whatever the input stream, which
\* ends in quit, exit, an interrupt or the end of input, run_interactive
\* eventually returns; no exception leaves it; and by then every earlier
\* line has been read, interpreted and answered.
C13_Terminates == <>ReturnedComplete /\ [](pc # "escaped")

\* C13 witness: the loop answered "5 / 0" and "last", then an interrupt at
\* the prompt ended it with the goodbye line.
C13_Witness ==
    /\ pc = "returned" /\ running
    /\ stdin = <<<<"5", " ", "/", " ", "0">>, <<"l", "a", "s", "t">>, Interrupt>>
    /\ printed = <<DivideByZeroText, LastResultPrefix \o <<"0">>, <<"\n">> \o GoodbyeText>>

----------------------------------------------------------------------------
(* Properties of the commands *)

RECURSIVE WindowText(_, _, _)
\* The lines i to w of a window on the last w entries of h: each line is
\* two spaces, its number in the window, a point, a space and the entry.
WindowText(h, w, i) ==
    IF i > w THEN <<>>
    ELSE (IF i > 1 THEN <<"\n">> ELSE <<>>)
            \o <<" ", " ">> \o NatStr(i) \o <<".", " ">> \o h[Len(h) - w + i]
            \o WindowText(h, w, i + 1)

\* C14: the history command renders the last min(10, n) of the n entries of
\* the history, oldest first and numbered from 1 within that window, under
\* the header; with no entry it renders the no-calculations message.
C14_HistoryWindow ==
    cli.line = <<"h", "i", "s", "t", "o", "r", "y">> =>
        cli.response =
            IF Len(History) = 0 THEN NoHistoryText
            ELSE HistoryHeader
                    \o WindowText(History, IF Len(History) < 10 THEN Len(History) ELSE 10, 1)

\* C14 witness: with eleven entries the command shows ten lines: the first
\* is entry 2 under number 1, the last is entry 11 under number 10.
C14_Witness ==
    /\ cli.line = <<"h", "i", "s", "t", "o", "r", "y">>
    /\ Len(History) = 11
    /\ IsPrefix(HistoryHeader \o <<" ", " ", "1", ".", " ">> \o History[2] \o <<"\n">>,
                cli.response)
    /\ EndsWith(cli.response, <<"\n", " ", " ", "1", "0", ".", " ">> \o History[11])

\* C15: last_result is zero until an operation of the engine has completed;
\* a step in which one completes leaves in last_result the number it
\* returned, every other step (a failed operation, a command, a line the
\* fallback answers, a step of the loop) leaves last_result as it was; and
\* the answer to the last command is the last-result text with exactly that
\* number.
C15_LastResult ==
    /\ last_result = Int_(0)
    /\ [][/\ IF pc = "parse" /\ Succeeded
             THEN last_result' = ret'.value
             ELSE last_result' = last_result
          /\ (pc = "parse" /\ Normal(stdin[nread]) = <<"l", "a", "s", "t">>) =>
                cli'.response = LastResultPrefix \o Str(last_result)]_vars

\* C15 witness: after "2 + 3" and the failed "5 / 0", the last command
\* reports 5.0, the result of the add.
C15_Witness ==
    /\ stdin = <<<<"2", " ", "+", " ", "3">>, <<"5", " ", "/", " ", "0">>, <<"l", "a", "s", "t">>>>
    /\ pc = "print" /\ nread = 3
    /\ last_result = Flt(5, 0)
    /\ cli.response = LastResultPrefix \o <<"5", ".", "0">>

----------------------------------------------------------------------------
(* Properties of the reading of a line *)

\* s.upper()
UpperChar(c) ==
    IF \E i \in 1 .. 26 : LowerChars[i] = c
    THEN UpperChars[CHOOSE i \in 1 .. 26 : LowerChars[i] = c]
    ELSE c
Upper(s) == [i \in 1 .. Len(s) |-> UpperChar(s[i])]

\* The variants of a line in letter case, and in whitespace before and
\* after the whole line.
CaseVariants(line) == {Upper(line), Lower(line)}
PadVariants(line) ==
    {<<" ">> \o line, line \o <<" ", "\t">>, <<"\t", " ">> \o line \o <<" ">>}

\* a op b with whitespace to the left and to the right of the operator, and
\* the variants of such a line in that whitespace.
Spaced(a, op, b, left, right) == a \o left \o <<op>> \o right \o b
OperandVariants(line) ==
    {Spaced(t[1], t[2], t[3], left, right) :
        t \in {u \in Signed \X {"+", "-", "*", "/"} \X Signed :
                 \E sp \in {<<>>, <<" ">>} : line = Spaced(u[1], u[2], u[3], sp, sp)},
        left \in {<<>>, <<" ">>, <<" ", " ">>},
        right \in {<<>>, <<" ">>, <<"\t">>}}

\* The step is a parse_expression, and it is in every respect but the line
\* it was given (response, engine, running flag) the step parse_expression
\* takes from the same state on the variant.
SameAs(variant) == Interpreted(cli'.line, Normal(variant))

\* The step is a parse_expression, and it changes the engine and the
\* running flag as parse_expression does from the same state on the variant.
SameEffectAs(variant) ==
    /\ EngineCall(Interpret(Normal(variant)))
    /\ running' = (running /\ ~IsQuit(variant))

\* Two answers of the fallback are the same but for the line they repeat:
\* the success answers of the lines e and f with the same number, or the
\* same error answer.
SameButEcho(mine, e, other, f) ==
    IF IsPrefix(OkMark, mine)
    THEN /\ IsPrefix(OkMark \o e, mine) /\ IsPrefix(OkMark \o f, other)
         /\ SubSeq(mine, Len(OkMark \o e) + 1, Len(mine))
               = SubSeq(other, Len(OkMark \o f) + 1, Len(other))
    ELSE other = mine

\* C16 as stated: a line and its variant in letter case, in whitespace
\* around the whole line or in whitespace around the operands of a binary
\* operator get the same response and change the engine and the running
\* flag in the same way.
C16_Insensitive ==
    [][cli' # cli =>
          \A v \in CaseVariants(cli'.line) \cup PadVariants(cli'.line)
                      \cup OperandVariants(cli'.line) : SameAs(v)]_vars

\* C16 amended: a line and its variant in letter case or in whitespace
\* around the whole line get the same response and the same change of the
\* engine and of the running flag.  A line and its variant in whitespace
\* around the operands of a binary operator change the engine and the
\* running flag in the same way, and get the same response when the
\* operator step answers the line; when the fallback answers it, the
\* response repeats the line with the whitespace it was typed with.
C16_InsensitiveParts ==
    [][cli' # cli =>
          /\ \A v \in CaseVariants(cli'.line) \cup PadVariants(cli'.line) : SameAs(v)
          /\ \A v \in OperandVariants(cli'.line) :
                /\ SameEffectAs(v)
                /\ ret'.op \in {"add", "subtract", "multiply", "divide"} => SameAs(v)
                /\ ret'.op = "none" =>
                      SameButEcho(cli'.response, Normal(cli'.line),
                                  except_clauses(EvalBranch(Normal(v))).value, Normal(v))]_vars

\* C16 witness: "5 + -5", a line the operator step answers by a call of
\* add, whose variants "5+-5" and "5  +\t-5" get the same answer.
C16_Witness ==
    /\ cli.line = <<"5", " ", "+", " ", "-", "5">>
    /\ <<"5", "+", "-", "5">> \in OperandVariants(cli.line)
    /\ ret.op = "add" /\ ret.args = <<Flt(5, 0), Flt(-5, 0)>>
    /\ cli.response = OkMark \o <<"5", ".", "0", " ", "+", " ", "-", "5", ".", "0", " ", "=",
                                  " ", "0", ".", "0">>

----------------------------------------------------------------------------
(* Properties of the operator step and of the fallback *)

\* No pattern before the operator step matches the line.
ReachesOperators(e) == \A i \in 1 .. 8 : ~Matches(Categories[i], e)

\* The position of the first occurrence of the symbol in the line.
FirstAt(e, symbol) ==
    CHOOSE i \in 1 .. Len(e) : e[i] = symbol /\ \A j \in 1 .. (i - 1) : e[j] # symbol

\* The symbol occurs in the line, and the texts before and after its first
\* occurrence are floats.
FirstBetweenFloats(e, symbol) ==
    /\ Occurrences(e, symbol) >= 1
    /\ BothFloats(Around(e, FirstAt(e, symbol)))

\* The last parse_expression called the engine operation of the k-th
\* operator on the floats around position i of the line and reported what
\* it returned, or the error it raised.
AppliedAt(e, k, i) ==
    /\ ret.op = op_func[k]
    /\ ret.args = <<ParseFloat(Around(e, i)[1]).value, ParseFloat(Around(e, i)[2]).value>>
    /\ IF ret.raised = "None"
       THEN /\ IsPrefix(OkMark, cli.response)
            /\ EndsWith(cli.response, <<" ", "=", " ">> \o Str(ret.value))
       ELSE IsPrefix(ErrorPrefix, cli.response)

\* C17 as stated: on a line that reaches the operator step, the first of
\* + - * / that occurs in the line with a float before and a float after
\* its first occurrence has its engine operation applied to the two floats,
\* and the result is reported.
C17_FirstOccurrence ==
    (cli # NoLine /\ ReachesOperators(Normal(cli.line))) =>
        \A k \in 1 .. Len(operators) :
            (/\ FirstBetweenFloats(Normal(cli.line), operators[k])
             /\ \A j \in 1 .. (k - 1) : ~FirstBetweenFloats(Normal(cli.line), operators[j]))
            => AppliedAt(Normal(cli.line), k, FirstAt(Normal(cli.line), operators[k]))

\* C17 amended: on a line that reaches the operator step, the first of
\* + - * / that occurs exactly once in the line, with a float before it and
\* a float after it, has its engine operation applied to the two floats,
\* and the result is reported; when no operator does, no operation of the
\* engine is called and the fallback answers.
C17_SingleOccurrence ==
    (cli # NoLine /\ ReachesOperators(Normal(cli.line))) =>
        /\ \A k \in 1 .. Len(operators) :
              (/\ OnceBetweenFloats(Normal(cli.line), operators[k])
               /\ \A j \in 1 .. (k - 1) : ~OnceBetweenFloats(Normal(cli.line), operators[j]))
              => AppliedAt(Normal(cli.line), k, FirstAt(Normal(cli.line), operators[k]))
        /\ (\A k \in 1 .. Len(operators) : ~OnceBetweenFloats(Normal(cli.line), operators[k]))
              => ret = NoCall

\* C17 witness: "10 / 2.5" called divide(10.0, 2.5) and reported 4.0.
C17_Witness ==
    /\ cli.line = <<"1", "0", " ", "/", " ", "2", ".", "5">>
    /\ OnceBetweenFloats(cli.line, "/")
    /\ ret.op = "divide" /\ ret.args = <<Flt(10, 0), Flt(2, 5)>>
    /\ cli.response = OkMark \o <<"1", "0", ".", "0", " ", "/", " ", "2", ".", "5", " ", "=",
                                  " ", "4", ".", "0">>

\* The success answer of the fallback: the line, then the number.
FallbackSuccess(e, number) == OkMark \o e \o <<" ", "=", " ">> \o Str(number)

\* On the lines a + b * c and a * b + c the multiplication is done first.
PrecedenceKept ==
    \A a \in 2 .. 4, b \in 2 .. 4, c \in 2 .. 4 :
        /\ cli.line = <<Digit(a), " ", "+", " ", Digit(b), " ", "*", " ", Digit(c)>>
              => cli.response = FallbackSuccess(cli.line, Int_(a + (b * c)))
        /\ cli.line = <<Digit(a), " ", "*", " ", Digit(b), " ", "+", " ", Digit(c)>>
              => cli.response = FallbackSuccess(cli.line, Int_((a * b) + c))

----------------------------------------------------------------------------
(* Algebraic properties of the engine *)

\* C19: subtract(add(a, b), b) is a: when add(a, b) is followed by the
\* subtraction of b from the number it returned, the subtraction returns a.
C19_AddThenSubtract ==
    [][(ret.op = "add" /\ ret'.op = "subtract") =>
          /\ ret'.args = <<ret.value, ret.args[2]>>
          /\ ret'.raised = "None"
          /\ ret'.value = ret.args[1]]_vars

\* C19 witness: add(-5, 3) returned -2 and subtract(-2, 3) returned -5.
C19_Witness ==
    /\ ret.op = "subtract" /\ ret.args = <<Int_(-2), Int_(3)>> /\ ret.value = Int_(-5)
    /\ History = <<BinaryEntry(Int_(-5), "+", Int_(3), Int_(-2)),
                   BinaryEntry(Int_(-2), "-", Int_(3), Int_(-5))>>

----------------------------------------------------------------------------
(* Properties of lines with a negative operand or several operators *)

\* The lines with two operators between three numbers.
SeveralOperatorLines ==
    {<<Digit(a), " ", op[1], " ", Digit(b), " ", op[2], " ", Digit(c)>> :
        a \in 2 .. 4, b \in 2 .. 4, c \in 2 .. 4,
        op \in {<<"+", "*">>, <<"*", "+">>, <<"+", "+">>}}
        \cup {<<"1", "0", " ", "-", " ", "5", " ", "-", " ", "2">>}

\* The engine operation of an operator symbol.
OperationOf(symbol) == op_func[CHOOSE k \in 1 .. Len(operators) : operators[k] = symbol]

\* C20 as stated: a line a op -b, and a line with more than one operator,
\* never matches the operator step: it goes to the fallback and no
\* operation of the engine is called for it.
C20_NeverMatches ==
    /\ \A a \in Signed, b \in Unsigned, op \in {"+", "-", "*", "/"}, sp \in {<<>>, <<" ">>} :
          cli.line = Spaced(a, op, <<"-">> \o b, sp, sp) => ret = NoCall
    /\ cli.line \in SeveralOperatorLines => ret = NoCall

\* C20 amended: a line a op -b in which the symbol of op occurs more than
\* once (a - -b, and +a + -b), and a line with two operators between three
\* numbers, goes to the fallback and no operation of the engine is called
\* for it; every other line a + -b, a * -b or a / -b matches the operator
\* step, which calls add, multiply or divide on a and the negative number
\* -b.
C20_NegativeOperand ==
    /\ \A a \in Signed, b \in Unsigned, op \in {"+", "-", "*", "/"}, sp \in {<<>>, <<" ">>} :
          cli.line = Spaced(a, op, <<"-">> \o b, sp, sp) =>
              IF op = "-" \/ Occurrences(cli.line, op) > 1 THEN ret = NoCall
              ELSE /\ ret.op = OperationOf(op)
                   /\ ret.args = <<ParseFloat(a).value, ParseFloat(<<"-">> \o b).value>>
                   /\ IsNeg(ret.args[2]) \/ IsZero(ret.args[2])
    /\ cli.line \in SeveralOperatorLines => ret = NoCall

\* C20 witness: "5 * -5" called multiply(5.0, -5.0), which recorded the
\* calculation.
C20_Witness ==
    /\ cli.line = <<"5", " ", "*", " ", "-", "5">>
    /\ ret.op = "multiply" /\ ret.args = <<Flt(5, 0), Flt(-5, 0)>>
    /\ cli.response = OkMark \o <<"5", ".", "0", " ", "*", " ", "-", "5", ".", "0", " ", "=",
                                  " ", "-", "2", "5", ".", "0">>
    /\ Len(History) >= 1 /\ last_result = Flt(-25, 0)

----------------------------------------------------------------------------
(* Properties of the square root of a negative literal *)

\* The line is sqrt(-x) for an unsigned numeric literal x.
NegativeSqrt(e) ==
    /\ Len(e) > 7
    /\ SubSeq(e, 1, 6) = <<"s", "q", "r", "t", "(", "-">>
    /\ e[Len(e)] = ")"
    /\ NumEnd(e, 7) = Len(e)

\* C21: a line sqrt(-x) with a numeric literal x is answered with the
\* invalid-expression text and not with an error line: the sqrt pattern does
\* not match a signed argument, no operation of the engine is called, and
\* history and last_result stay what they were.
C21_NegativeSqrt ==
    [][cli' # cli /\ NegativeSqrt(Normal(cli'.line)) =>
          /\ ~MatchFunction(<<"s", "q", "r", "t">>, Normal(cli'.line)).ok
          /\ cli'.raised = "None"
          /\ cli'.response = InvalidText
          /\ ret' = NoCall
          /\ heap' = heap /\ last_result' = last_result]_vars

\* C21 witness: after add(1, 1), "sqrt(-4)" was answered with the
\* invalid-expression text and the engine still holds the addition.
C21_Witness ==
    /\ cli # NoLine
    /\ cli.line = <<"s", "q", "r", "t", "(", "-", "4", ")">>
    /\ cli.response = InvalidText
    /\ ret = NoCall
    /\ Len(History) = 1 /\ last_result = Int_(2)

----------------------------------------------------------------------------
(* Properties of failed operations and of the last history entry *)

\* C25: a failed engine operation changes nothing: when divide,
\* square_root, factorial or logarithm raises, the history (and every other
\* list) and last_result are exactly what they were before the call.
C25_FailureChangesNothing ==
    [][(/\ ret'.raised # "None"
        /\ ret'.op \in {"divide", "square_root", "factorial", "logarithm"}) =>
          /\ heap' = heap
          /\ last_result' = last_result]_vars

\* C25 witness: after two recorded calculations, factorial of -1.5 raised
\* and the engine holds both.
C25_Witness ==
    /\ ret.op = "factorial" /\ ret.raised = "ValueError"
    /\ ret.args = <<Flt(-1, -5)>>
    /\ Len(History) = 2
    /\ last_result # Int_(0)

\* C27: whenever the history is not empty, the result its last entry
\* records is last_result: the entry ends with " = " and the text of
\* last_result.
C27_LastEntryIsLastResult ==
    History # <<>> =>
        EndsWith(History[Len(History)], <<" ", "=", " ">> \o Str(last_result))

\* C27 witness: sine(4) is the only entry and a failed call came after
\* it; the last entry and last_result both hold its value.
C27_Witness ==
    /\ ret.raised # "None"
    /\ Len(History) = 1
    /\ IsPrefix(<<"s", "i", "n", "(", "4">>, History[1])
    /\ last_result = MathSin(MathRadians(Int_(4)))

----------------------------------------------------------------------------
(* Properties of clearing (SpecSession) *)

RECURSIVE ResultBefore(_, _)
\* The result of the most recent calculation among the first n lines of the
\* stream: "2 + 3" gives 5.0 and "3 * 4" gives 12.0, the other lines compute
\* nothing; 0 when there is none.
ResultBefore(stream, n) ==
    IF n = 0 THEN Int_(0)
    ELSE IF stream[n] = <<"2", " ", "+", " ", "3">> THEN Flt(5, 0)
    ELSE IF stream[n] = <<"3", " ", "*", " ", "4">> THEN Flt(12, 0)
    ELSE ResultBefore(stream, n - 1)

\* The n-th line is a "last" that follows a "clear" at j with no
\* calculation between the two.
LastAfterClear(stream, j, n) ==
    /\ j < n
    /\ Normal(stream[n]) = <<"l", "a", "s", "t">>
    /\ Normal(stream[j]) = <<"c", "l", "e", "a", "r">>
    /\ ResultBefore(stream, n) = ResultBefore(stream, j)

\* C26: clear_history, and the "clear" command that calls it, leaves
\* last_result unchanged: the step that clears the history keeps
\* last_result, and a "last" after a "clear" reports the result of the most
\* recent calculation made before the clear.
C26_ClearKeepsLast ==
    /\ [][ret'.op = "clear_history" =>
              last_result' = last_result /\ History' = <<>>]_vars
    /\ [](pc = "print" =>
              \A j \in 1 .. nread :
                  LastAfterClear(stdin, j, nread) =>
                      /\ cli.response = LastResultPrefix \o Str(ResultBefore(stdin, j))
                      /\ last_result = ResultBefore(stdin, j))

\* C26 witness: "3 * 4", "clear", "last": the history is empty and "last"
\* has answered 12.0.
C26_Witness ==
    /\ stdin = <<<<"3", " ", "*", " ", "4">>, <<"c", "l", "e", "a", "r">>, <<"l", "a", "s", "t">>>>
    /\ nread = 3 /\ pc = "print"
    /\ History = <<>>
    /\ cli.response = LastResultPrefix \o <<"1", "2", ".", "0">>

----------------------------------------------------------------------------
(* Properties of the session commands (SpecCommands) *)

\* C30: the commands history, last, help, quit and exit leave the engine's
\* history and last_result unchanged; only quit and exit change the running
\* flag, which they make false; and no line makes it true again.
C30_SessionCommands ==
    [][LET command == Normal(cli'.line)
       IN  /\ command \in {<<"h", "i", "s", "t", "o", "r", "y">>, <<"l", "a", "s", "t">>,
                            <<"h", "e", "l", "p">>, <<"q", "u", "i", "t">>,
                            <<"e", "x", "i", "t">>} =>
                  /\ History' = History
                  /\ last_result' = last_result
           /\ running' # running => IsQuit(cli'.line)
           /\ IsQuit(cli'.line) => ~running'
           /\ ~running => ~running']_vars

\* C30 witness: after a calculation and a quit, "help" was interpreted: the
\* flag is still false and the engine holds the calculation.
C30_Witness ==
    /\ cli # NoLine
    /\ Normal(cli.line) = <<"h", "e", "l", "p">>
    /\ ~running
    /\ Len(History) = 1 /\ last_result = Flt(5, 0)

----------------------------------------------------------------------------
(* Properties of the structured patterns *)

\* The match of the pattern of a structured category on the line e.
MatchFor(category, e) ==
    CASE category = "percentage" -> MatchPercentage(e)
      [] category = "factorial" -> MatchFactorial(e)
      [] category = "sqrt" -> MatchFunction(<<"s", "q", "r", "t">>, e)
      [] category = "log" -> MatchLog(e)
      [] category = "ln" -> MatchFunction(<<"l", "n">>, e)
      [] category = "trig" ->
            IF MatchFunction(<<"s", "i", "n">>, e).ok THEN MatchFunction(<<"s", "i", "n">>, e)
            ELSE IF MatchFunction(<<"c", "o", "s">>, e).ok
            THEN MatchFunction(<<"c", "o", "s">>, e)
            ELSE MatchFunction(<<"t", "a", "n">>, e)
      [] category = "power" -> MatchPower(e)

\* The pattern matches a part of the line that is followed by text that is
\* not blank: the same match is found on a shorter beginning of the line.
LeavesText(category, e) ==
    /\ MatchFor(category, e).ok
    /\ \E k \in 1 .. (Len(e) - 1) :
          /\ MatchFor(category, SubSeq(e, 1, k)) = MatchFor(category, e)
          /\ Strip(SubSeq(e, k + 1, Len(e))) # <<>>

\* C29: a structured pattern (percentage, factorial, sqrt, log, ln, trig,
\* power) is dispatched only when it accounts for the whole line: no line
\* is answered by the branch of a pattern that matched its beginning and
\* left text after it.
C29_WholeLine ==
    (/\ cli # NoLine
     /\ Taken \in {"percentage", "factorial", "sqrt", "log", "ln", "trig", "power"}) =>
        ~LeavesText(Taken, Normal(cli.line))

----------------------------------------------------------------------------
(* Properties of the window (SpecGui) *)

\* C24: clear_entry empties the current entry and leaves pending_operation,
\* pending_value and just_calculated as they were; clear empties the entry,
\* sets pending_operation and pending_value to None and just_calculated to
\* false; neither changes the engine's history or last_result.
C24_ClearAndClearEntry ==
    [][/\ clear_entry =>
            /\ gui'.current_input = <<>>
            /\ gui'.pending_operation = gui.pending_operation
            /\ gui'.pending_value = gui.pending_value
            /\ gui'.just_calculated = gui.just_calculated
            /\ History' = History
            /\ last_result' = last_result
       /\ clear =>
            /\ gui'.current_input = <<>>
            /\ gui'.pending_operation = "None"
            /\ gui'.pending_value = None
            /\ gui'.just_calculated = FALSE
            /\ History' = History
            /\ last_result' = last_result]_vars

\* C24 happens: the entry is empty although a result was just calculated and
\* an operation is pending (sqrt + sqrt CE): only clear_entry leaves that.
C24_Witness ==
    /\ gui.current_input = <<>>
    /\ gui.just_calculated
    /\ gui.pending_operation = "+"
    /\ gui.pending_value # None
    /\ History # <<>>

\* C28: after a handler that showed an error box the window is fully reset:
\* the entry is empty, pending_operation and pending_value are None and
\* just_calculated is false.
C28_ErrorResets ==
    gui.error # <<>> =>
        /\ gui.current_input = <<>>
        /\ gui.pending_operation = "None"
        /\ gui.pending_value = None
        /\ ~gui.just_calculated

\* The engine operation behind an operator button.
OperationName(op) ==
    CASE op = "+" -> "add"
      [] op = "-" -> "subtract"
      [] op = "*" -> "multiply"
      [] op = "/" -> "divide"
      [] op = "**" -> "power"

\* An operation is pending and the entry holds a second operand.
SecondOperand ==
    /\ gui.pending_operation # "None"
    /\ gui.current_input # <<>>
    /\ ParseFloat(gui.current_input).raised = "None"

\* C23: chaining is left to right: an operator pressed while an operation is
\* pending and a second operand is entered first evaluates the pending
\* operation on the pending value and the entry, then stores its result as
\* the pending value of the new operator.
C23_ChainLeftToRight ==
    [][\A op \in {"+", "-", "*", "/", "**"} :
            operation(op) /\ SecondOperand =>
                /\ ret'.op = OperationName(gui.pending_operation)
                /\ ret'.args = <<gui.pending_value, ParseFloat(gui.current_input).value>>
                /\ ret'.raised = "None"
                /\ gui'.pending_value = ret'.value
                /\ gui'.pending_operation = op]_vars

\* The handler of a button that calls the engine has put a result into the
\* entry (x to the y does so when it evaluates a pending operation).
ResultShown ==
    \/ equals /\ EqualsCase(gui) = "call" /\ gui'.error = <<>>
    \/ /\ operation("**")
       /\ SecondOperand /\ ~gui.just_calculated
       /\ EqualsCase(gui) = "call" /\ gui'.error = <<>>
    \/ gui_square_root /\ gui'.error = <<>>
    \/ /\ square \/ gui_factorial \/ gui_sine \/ gui_cosine \/ gui_tangent
       /\ gui.current_input # <<>>
       /\ gui'.error = <<>>

\* The handler of % has put a result into the entry.
PercentShown ==
    /\ gui_percentage
    /\ gui.current_input # <<>>
    /\ gui'.error = <<>>

\* C22, as stated: whenever an operation button (=, sqrt, x squared, x to
\* the y, %, !, sin, cos, tan) replaces the entry with a result, the engine
\* has gained exactly one history entry and its last_result is the result
\* displayed.
C22_EveryButtonThroughEngine ==
    [][ResultShown \/ PercentShown =>
            /\ Len(History') = Len(History) + 1
            /\ gui'.display = Str(last_result')]_vars

\* C22, amended: whenever an operation button other than % replaces the
\* entry with a result, the engine has gained exactly one history entry and
\* the display shows the text of the engine's last_result (shortened when it
\* has more than 20 characters), which is also the new entry unless an
\* operator button emptied it; % divides the entry by 100 itself and leaves
\* the engine's history and last_result as they were.
C22_ButtonsThroughEngine ==
    [][/\ ResultShown =>
            /\ Len(History') = Len(History) + 1
            /\ gui'.display = update_display(Str(last_result'))
            /\ gui'.current_input = IF operation("**") THEN <<>> ELSE Str(last_result')
       /\ PercentShown =>
            /\ History' = History
            /\ last_result' = last_result
            /\ ret' = NoCall
            /\ gui'.current_input =
                 Str(PyTrueDiv(ParseFloat(gui.current_input).value, Int_(100)))]_vars

\* C22 happens: sin has put its result into the entry and the engine has
\* recorded it after an earlier calculation.
C22_Witness ==
    /\ ret.op = "sine"
    /\ ret.raised = "None"
    /\ gui.just_calculated
    /\ gui.current_input = Str(last_result)
    /\ Len(History) = 2

====
